---------------------------- MODULE Spec2Model ----------------------------
(***************************************************************************)
(* A model of growatt.py: the Modbus client guarded by one lock            *)
(* (GrowattModbusClient), the inverter session with its clock-sync and     *)
(* write-drain threads (GrowattInverter), and the register codec used by   *)
(* write_config.  Time is counted in whole seconds.                        *)
(***************************************************************************)
EXTENDS Integers, Sequences, FiniteSets, TLC

(***************************************************************************)
(* Python values.  A value is a record [t, b, n]: t is the Python type,    *)
(* b the UTF-8 bytes of a str, n the number of an int or bool, and for a   *)
(* float the number in tenths (1.5 is n = 15).                             *)
(***************************************************************************)
PyStr(bytes) == [t |-> "str", b |-> bytes, n |-> 0]
PyInt(i) == [t |-> "int", b |-> <<>>, n |-> i]
PyFloat(tenths) == [t |-> "float", b |-> <<>>, n |-> tenths]
PyBool(x) == [t |-> "bool", b |-> <<>>, n |-> IF x THEN 1 ELSE 0]

\* The outcome of a Python call: a value, or the exception it raised.
Ret(v) == [exc |-> "", v |-> v]
Raise(e) == [exc |-> e, v |-> PyInt(0)]

\* Python's == on the values above (and so dict-key identity): numbers of
\* any numeric type compare by value, a str only equals a str.
PyTenths(v) == IF v.t = "float" THEN v.n ELSE v.n * 10
PyEq(x, y) ==
    IF x.t = "str" \/ y.t = "str"
    THEN x.t = y.t /\ x.b = y.b
    ELSE PyTenths(x) = PyTenths(y)

\* str.lower() on ASCII bytes.
Lower(b) == [i \in DOMAIN b |-> IF b[i] \in 65..90 THEN b[i] + 32 ELSE b[i]]

IsDigit(c) == c \in 48..57

RECURSIVE DigitsValue(_)
DigitsValue(b) ==
    IF Len(b) = 0 THEN 0
    ELSE DigitsValue(SubSeq(b, 1, Len(b) - 1)) * 10 + (b[Len(b)] - 48)

\* int(x): an int stays, a float is truncated towards zero, a str is parsed
\* as an optionally signed run of decimal digits, else ValueError.
PyIntOf(x) ==
    CASE x.t \in {"int", "bool"} -> Ret(PyInt(x.n))
      [] x.t = "float" ->
            Ret(PyInt(IF x.n >= 0 THEN x.n \div 10 ELSE -((-x.n) \div 10)))
      [] OTHER ->
            LET signed == Len(x.b) > 0 /\ x.b[1] \in {43, 45}
                digits == IF signed THEN Tail(x.b) ELSE x.b
            IN  IF Len(digits) > 0 /\ \A i \in DOMAIN digits : IsDigit(digits[i])
                THEN Ret(PyInt(IF signed /\ x.b[1] = 45
                               THEN -DigitsValue(digits)
                               ELSE DigitsValue(digits)))
                ELSE Raise("ValueError")

RECURSIVE NatDigits(_)
NatDigits(i) ==
    IF i < 10 THEN <<48 + i>> ELSE Append(NatDigits(i \div 10), 48 + (i % 10))

\* str(x): the decimal text of a number (a float always shows one decimal).
PyStrOf(x) ==
    CASE x.t = "str" -> Ret(x)
      [] x.t = "int" ->
            Ret(PyStr(IF x.n < 0 THEN <<45>> \o NatDigits(-x.n) ELSE NatDigits(x.n)))
      [] x.t = "bool" ->
            Ret(PyStr(IF x.n = 1 THEN <<84, 114, 117, 101>>
                                 ELSE <<70, 97, 108, 115, 101>>))
      [] OTHER ->
            LET a == IF x.n < 0 THEN -x.n ELSE x.n
            IN  Ret(PyStr((IF x.n < 0 THEN <<45>> ELSE <<>>)
                          \o NatDigits(a \div 10) \o <<46>> \o NatDigits(a % 10)))

TrueWords == { <<121, 101, 115>>, <<116, 114, 117, 101>>, <<116>>, <<49>> }
FalseWords == { <<110, 111>>, <<102, 97, 108, 115, 101>>, <<102>>, <<48>> }

\* str2bool: a bool or int by truth value; a str by its lower-cased word;
\* any other type has no .lower() and raises AttributeError.
str2bool(value) ==
    CASE value.t \in {"bool", "int"} -> Ret(PyBool(value.n # 0))
      [] value.t = "str" ->
            IF Lower(value.b) \in TrueWords THEN Ret(PyBool(TRUE))
            ELSE IF Lower(value.b) \in FalseWords THEN Ret(PyBool(FALSE))
            ELSE Raise("ValueError")
      [] OTHER -> Raise("AttributeError")

str2bool2int(value) ==
    LET r == str2bool(value)
    IN  IF r.exc # "" THEN r ELSE Ret(PyInt(r.v.n))

(***************************************************************************)
(* The enumerations of the holding registers (read direction).             *)
(***************************************************************************)
OutputConfigR ==
    0 :> PyStr(<<83, 66, 85>>)  \* 'SBU'
    @@ 1 :> PyStr(<<83, 79, 76>>)  \* 'SOL'
    @@ 2 :> PyStr(<<85, 84, 73>>)  \* 'UTI'
    @@ 3 :> PyStr(<<83, 85, 66>>)  \* 'SUB'

ChargeConfigR ==
    0 :> PyStr(<<80, 86, 32, 70, 105, 114, 115, 116>>)  \* 'PV First'
    @@ 1 :> PyStr(<<80, 86, 38, 85, 84, 73>>)  \* 'PV&UTI'
    @@ 2 :> PyStr(<<80, 86, 32, 79, 110, 108, 121>>)  \* 'PV Only'

PVModelR ==
    0 :> PyStr(<<73, 110, 100, 101, 112, 101, 110, 100, 101, 110, 116>>)  \* 'Independent'
    @@ 1 :> PyStr(<<80, 97, 114, 97, 108, 108, 101, 108>>)  \* 'Parallel'

ACInModelR ==
    0 :> PyStr(<<65, 80, 76>>)  \* 'APL'
    @@ 1 :> PyStr(<<85, 80, 83>>)  \* 'UPS'
    @@ 2 :> PyStr(<<71, 69, 78>>)  \* 'GEN'

OutputVoltTypeR ==
    0 :> PyStr(<<50, 48, 56, 86, 65, 67>>)  \* '208VAC'
    @@ 1 :> PyStr(<<50, 51, 48, 86, 65, 67>>)  \* '230VAC'
    @@ 2 :> PyStr(<<50, 52, 48, 86, 65, 67>>)  \* '240VAC'
    @@ 3 :> PyStr(<<50, 50, 48, 86, 65, 67>>)  \* '220VAC'
    @@ 4 :> PyStr(<<49, 48, 48, 86, 65, 67>>)  \* '100VAC'
    @@ 5 :> PyStr(<<49, 49, 48, 86, 65, 67>>)  \* '110VAC'
    @@ 6 :> PyStr(<<49, 50, 48, 86, 65, 67>>)  \* '120VAC'

OutputFreqTypeR ==
    0 :> PyStr(<<53, 48, 72, 122>>)  \* '50Hz'
    @@ 1 :> PyStr(<<54, 48, 72, 122>>)  \* '60Hz'

OverLoadRestartR ==
    0 :> PyStr(<<89, 101, 115>>)  \* 'Yes'
    @@ 1 :> PyStr(<<78, 111>>)  \* 'No'
    @@ 2 :> PyStr(<<83, 119, 105, 116, 99, 104, 32, 116, 111, 32, 85, 84, 73>>)  \* 'Switch to UTI'

OverTempRestartR ==
    0 :> PyBool(TRUE)  \* True
    @@ 1 :> PyBool(FALSE)  \* False

BatteryTypeR ==
    0 :> PyStr(<<65, 71, 77>>)  \* 'AGM'
    @@ 1 :> PyStr(<<70, 76, 68>>)  \* 'FLD'
    @@ 2 :> PyStr(<<85, 83, 69>>)  \* 'USE'
    @@ 3 :> PyStr(<<76, 105, 116, 104, 105, 117, 109>>)  \* 'Lithium'
    @@ 4 :> PyStr(<<85, 83, 69, 50>>)  \* 'USE2'

AgingModeR ==
    0 :> PyStr(<<78, 111, 114, 109, 97, 108>>)  \* 'Normal'
    @@ 1 :> PyStr(<<65, 103, 105, 110, 103>>)  \* 'Aging'

SafetyTypeR ==
    1 :> PyStr(<<83, 116, 97, 110, 100, 97, 114, 100>>)  \* 'Standard'
    @@ 2 :> PyStr(<<69, 84, 76>>)  \* 'ETL'
    @@ 3 :> PyStr(<<65, 83, 52, 55, 55, 55>>)  \* 'AS4777'
    @@ 4 :> PyStr(<<67, 81, 67>>)  \* 'CQC'
    @@ 5 :> PyStr(<<86, 68, 69, 52, 49, 48, 53>>)  \* 'VDE4105'

OnOffR ==
    0 :> PyStr(<<79, 117, 116, 112, 117, 116, 32, 101, 110, 97, 98, 108, 101>>)  \* 'Output enable'
    @@ 256 :> PyStr(<<79, 117, 116, 112, 117, 116, 32, 100, 105, 115, 97, 98, 108, 101>>)  \* 'Output disable'

\* The read table behind a write table name: XW = {v: k for k, v in XR.items()}.
EnumR(tab) ==
    CASE tab \in {"OutputConfigR", "OutputConfigW"} -> OutputConfigR
      [] tab \in {"ChargeConfigR", "ChargeConfigW"} -> ChargeConfigR
      [] tab \in {"PVModelR", "PVModelW"} -> PVModelR
      [] tab \in {"ACInModelR", "ACInModelW"} -> ACInModelR
      [] tab \in {"OutputVoltTypeR", "OutputVoltTypeW"} -> OutputVoltTypeR
      [] tab \in {"OutputFreqTypeR", "OutputFreqTypeW"} -> OutputFreqTypeR
      [] tab \in {"OverLoadRestartR", "OverLoadRestartW"} -> OverLoadRestartR
      [] tab \in {"OverTempRestartR", "OverTempRestartW"} -> OverTempRestartR
      [] tab \in {"BatteryTypeR", "BatteryTypeW"} -> BatteryTypeR
      [] tab \in {"AgingModeR", "AgingModeW"} -> AgingModeR
      [] tab \in {"SafetyTypeR", "SafetyTypeW"} -> SafetyTypeR
      [] OTHER -> OnOffR

\* XW[x]: the register value whose label equals x, or KeyError.
EnumW(tab, x) ==
    LET r == EnumR(tab)
        hits == {k \in DOMAIN r : PyEq(r[k], x)}
    IN  IF hits = {} THEN Raise("KeyError")
        ELSE Ret(PyInt(CHOOSE k \in hits : \A j \in hits : j <= k))

(***************************************************************************)
(* The holding-register catalog: start, length, type, read post-process    *)
(* and write pre-process ("None" when the register is not writeable).      *)
(***************************************************************************)
HoldingAndWriteRegisters ==
    "OnOff" :> [start |-> 0, length |-> 1, type |-> "UINT", read |-> "enum", rtab |-> "OnOffR", write |-> "None", wtab |-> ""] @@
    "OutputConfig" :> [start |-> 1, length |-> 1, type |-> "UINT", read |-> "enum", rtab |-> "OutputConfigR", write |-> "enum", wtab |-> "OutputConfigW"] @@
    "ChargeConfig" :> [start |-> 2, length |-> 1, type |-> "UINT", read |-> "enum", rtab |-> "ChargeConfigR", write |-> "enum", wtab |-> "ChargeConfigW"] @@
    "UtiOutStart" :> [start |-> 3, length |-> 1, type |-> "UINT", read |-> "int", rtab |-> "", write |-> "int", wtab |-> ""] @@
    "UtiOutEnd" :> [start |-> 4, length |-> 1, type |-> "UINT", read |-> "int", rtab |-> "", write |-> "int", wtab |-> ""] @@
    "UtiChargeStart" :> [start |-> 5, length |-> 1, type |-> "UINT", read |-> "int", rtab |-> "", write |-> "int", wtab |-> ""] @@
    "UtiChargeEnd" :> [start |-> 6, length |-> 1, type |-> "UINT", read |-> "int", rtab |-> "", write |-> "int", wtab |-> ""] @@
    "PVModel" :> [start |-> 7, length |-> 1, type |-> "UINT", read |-> "enum", rtab |-> "PVModelR", write |-> "enum", wtab |-> "PVModelW"] @@
    "ACInModel" :> [start |-> 8, length |-> 1, type |-> "UINT", read |-> "enum", rtab |-> "ACInModelR", write |-> "enum", wtab |-> "ACInModelW"] @@
    "FWVersion" :> [start |-> 9, length |-> 3, type |-> "CHAR", read |-> "str", rtab |-> "", write |-> "None", wtab |-> ""] @@
    "FWVersion2" :> [start |-> 12, length |-> 3, type |-> "CHAR", read |-> "str", rtab |-> "", write |-> "None", wtab |-> ""] @@
    "LCDLanguage" :> [start |-> 15, length |-> 1, type |-> "UINT", read |-> "int", rtab |-> "", write |-> "int", wtab |-> ""] @@
    "GridV_Adj" :> [start |-> 16, length |-> 1, type |-> "UINT", read |-> "int", rtab |-> "", write |-> "None", wtab |-> ""] @@
    "InvV_Adj" :> [start |-> 17, length |-> 1, type |-> "UINT", read |-> "int", rtab |-> "", write |-> "None", wtab |-> ""] @@
    "OutputVoltType" :> [start |-> 18, length |-> 1, type |-> "UINT", read |-> "enum", rtab |-> "OutputVoltTypeR", write |-> "enum", wtab |-> "OutputVoltTypeW"] @@
    "OutputFreqType" :> [start |-> 19, length |-> 1, type |-> "UINT", read |-> "enum", rtab |-> "OutputFreqTypeR", write |-> "enum", wtab |-> "OutputFreqTypeW"] @@
    "OverLoadRestart" :> [start |-> 20, length |-> 1, type |-> "UINT", read |-> "enum", rtab |-> "OverLoadRestartR", write |-> "enum", wtab |-> "OverLoadRestartW"] @@
    "OverTempRestart" :> [start |-> 21, length |-> 1, type |-> "UINT", read |-> "enum", rtab |-> "OverTempRestartR", write |-> "enum_str2bool", wtab |-> "OverTempRestartW"] @@
    "BuzzerEnable" :> [start |-> 22, length |-> 1, type |-> "UINT", read |-> "bool", rtab |-> "", write |-> "str2bool2int", wtab |-> ""] @@
    "SerialNumber" :> [start |-> 23, length |-> 5, type |-> "CHAR", read |-> "str", rtab |-> "", write |-> "str", wtab |-> ""] @@
    "MoudleH" :> [start |-> 28, length |-> 1, type |-> "UINT", read |-> "int", rtab |-> "", write |-> "int", wtab |-> ""] @@
    "MoudleL" :> [start |-> 29, length |-> 1, type |-> "UINT", read |-> "int", rtab |-> "", write |-> "int", wtab |-> ""] @@
    "ComAddress" :> [start |-> 30, length |-> 1, type |-> "UINT", read |-> "int", rtab |-> "", write |-> "int", wtab |-> ""] @@
    "FlashStart" :> [start |-> 31, length |-> 1, type |-> "UINT", read |-> "int", rtab |-> "", write |-> "int", wtab |-> ""] @@
    "ResetUserInfo" :> [start |-> 32, length |-> 1, type |-> "UINT", read |-> "int", rtab |-> "", write |-> "int", wtab |-> ""] @@
    "ResetToFactory" :> [start |-> 33, length |-> 1, type |-> "UINT", read |-> "int", rtab |-> "", write |-> "int", wtab |-> ""] @@
    "MaxChargeAmps" :> [start |-> 34, length |-> 1, type |-> "UINT", read |-> "int", rtab |-> "", write |-> "int", wtab |-> ""] @@
    "BulkChargeVolt" :> [start |-> 35, length |-> 1, type |-> "UINT", read |-> "div10", rtab |-> "", write |-> "int_mul10", wtab |-> ""] @@
    "FloatChargeVolt" :> [start |-> 36, length |-> 1, type |-> "UINT", read |-> "div10", rtab |-> "", write |-> "int_mul10", wtab |-> ""] @@
    "BatLowtoUti" :> [start |-> 37, length |-> 1, type |-> "UINT", read |-> "div10", rtab |-> "", write |-> "int_mul10", wtab |-> ""] @@
    "ACChargeAmps" :> [start |-> 38, length |-> 1, type |-> "UINT", read |-> "int", rtab |-> "", write |-> "int", wtab |-> ""] @@
    "BatteryType" :> [start |-> 39, length |-> 1, type |-> "UINT", read |-> "enum", rtab |-> "BatteryTypeR", write |-> "enum", wtab |-> "BatteryTypeW"] @@
    "AgingMode" :> [start |-> 40, length |-> 1, type |-> "UINT", read |-> "enum", rtab |-> "AgingModeR", write |-> "enum", wtab |-> "AgingModeW"] @@
    "FunctionMask" :> [start |-> 41, length |-> 1, type |-> "UINT", read |-> "int", rtab |-> "", write |-> "int", wtab |-> ""] @@
    "SafetyType" :> [start |-> 42, length |-> 1, type |-> "UINT", read |-> "enum", rtab |-> "SafetyTypeR", write |-> "enum", wtab |-> "SafetyTypeW"] @@
    "DTC" :> [start |-> 43, length |-> 1, type |-> "UINT", read |-> "int", rtab |-> "", write |-> "None", wtab |-> ""] @@
    "SysYear" :> [start |-> 45, length |-> 1, type |-> "UINT", read |-> "int", rtab |-> "", write |-> "int", wtab |-> ""] @@
    "SysMonth" :> [start |-> 46, length |-> 1, type |-> "UINT", read |-> "int", rtab |-> "", write |-> "int", wtab |-> ""] @@
    "SysDay" :> [start |-> 47, length |-> 1, type |-> "UINT", read |-> "int", rtab |-> "", write |-> "int", wtab |-> ""] @@
    "SysHour" :> [start |-> 48, length |-> 1, type |-> "UINT", read |-> "int", rtab |-> "", write |-> "int", wtab |-> ""] @@
    "SysMin" :> [start |-> 49, length |-> 1, type |-> "UINT", read |-> "int", rtab |-> "", write |-> "int", wtab |-> ""] @@
    "SysSec" :> [start |-> 50, length |-> 1, type |-> "UINT", read |-> "int", rtab |-> "", write |-> "int", wtab |-> ""] @@
    "SysWeekly" :> [start |-> 72, length |-> 1, type |-> "UINT", read |-> "int", rtab |-> "", write |-> "int", wtab |-> ""] @@
    "ModbusVersion" :> [start |-> 73, length |-> 1, type |-> "UINT", read |-> "div100", rtab |-> "", write |-> "None", wtab |-> ""] @@
    "SCC_ComMode" :> [start |-> 75, length |-> 1, type |-> "UINT", read |-> "int", rtab |-> "", write |-> "None", wtab |-> ""] @@
    "RateWatt" :> [start |-> 76, length |-> 2, type |-> "UINT", read |-> "div10", rtab |-> "", write |-> "None", wtab |-> ""] @@
    "RateVA" :> [start |-> 78, length |-> 2, type |-> "UINT", read |-> "div10", rtab |-> "", write |-> "None", wtab |-> ""] @@
    "ComboardVer" :> [start |-> 80, length |-> 1, type |-> "UINT", read |-> "int", rtab |-> "", write |-> "None", wtab |-> ""] @@
    "uwBatPieceNum" :> [start |-> 81, length |-> 1, type |-> "UINT", read |-> "int", rtab |-> "", write |-> "int", wtab |-> ""] @@
    "wBatLowCutOff" :> [start |-> 82, length |-> 1, type |-> "UINT", read |-> "div10", rtab |-> "", write |-> "None", wtab |-> ""] @@
    "uwAC2BatVolt" :> [start |-> 95, length |-> 1, type |-> "UINT", read |-> "div10", rtab |-> "", write |-> "int_mul10", wtab |-> ""] @@
    "BypEnable" :> [start |-> 96, length |-> 1, type |-> "UINT", read |-> "bool", rtab |-> "", write |-> "str2bool2int", wtab |-> ""] @@
    "PowSavingEnable" :> [start |-> 97, length |-> 1, type |-> "UINT", read |-> "bool", rtab |-> "", write |-> "str2bool2int", wtab |-> ""] @@
    "SpowBalEnable" :> [start |-> 98, length |-> 1, type |-> "UINT", read |-> "bool", rtab |-> "", write |-> "str2bool2int", wtab |-> ""] @@
    "ClrEnergyToday" :> [start |-> 99, length |-> 1, type |-> "UINT", read |-> "bool", rtab |-> "", write |-> "str2bool2int", wtab |-> ""] @@
    "ClrEnergyAll" :> [start |-> 100, length |-> 1, type |-> "UINT", read |-> "bool", rtab |-> "", write |-> "str2bool2int", wtab |-> ""] @@
    "BurnInTestEnable" :> [start |-> 101, length |-> 1, type |-> "UINT", read |-> "bool", rtab |-> "", write |-> "str2bool2int", wtab |-> ""] @@
    "ManualStartEnable" :> [start |-> 102, length |-> 1, type |-> "UINT", read |-> "bool", rtab |-> "", write |-> "str2bool2int", wtab |-> ""] @@
    "SciLossChkEnable" :> [start |-> 103, length |-> 1, type |-> "UINT", read |-> "bool", rtab |-> "", write |-> "str2bool2int", wtab |-> ""] @@
    "BlightEnable" :> [start |-> 104, length |-> 1, type |-> "UINT", read |-> "bool", rtab |-> "", write |-> "str2bool2int", wtab |-> ""] @@
    "ParaMaxChgAmps" :> [start |-> 105, length |-> 1, type |-> "UINT", read |-> "int", rtab |-> "", write |-> "None", wtab |-> ""] @@
    "LiProtocolType" :> [start |-> 106, length |-> 1, type |-> "UINT", read |-> "int", rtab |-> "", write |-> "int", wtab |-> ""] @@
    "AudioAlarmEnable" :> [start |-> 107, length |-> 1, type |-> "UINT", read |-> "bool", rtab |-> "", write |-> "str2bool2int", wtab |-> ""] @@
    "uwEqEnable" :> [start |-> 108, length |-> 1, type |-> "UINT", read |-> "bool", rtab |-> "", write |-> "str2bool2int", wtab |-> ""] @@
    "uwEqChgVolt" :> [start |-> 109, length |-> 1, type |-> "UINT", read |-> "int", rtab |-> "", write |-> "int", wtab |-> ""] @@
    "uwEqTime" :> [start |-> 110, length |-> 1, type |-> "UINT", read |-> "int", rtab |-> "", write |-> "int", wtab |-> ""] @@
    "uwEqTimeOut" :> [start |-> 111, length |-> 1, type |-> "UINT", read |-> "int", rtab |-> "", write |-> "int", wtab |-> ""] @@
    "uwEqInterval" :> [start |-> 112, length |-> 1, type |-> "UINT", read |-> "int", rtab |-> "", write |-> "int", wtab |-> ""] @@
    "uwMaxDisChgAmps" :> [start |-> 113, length |-> 1, type |-> "UINT", read |-> "int", rtab |-> "", write |-> "int", wtab |-> ""] @@
    "BLVersion2" :> [start |-> 162, length |-> 1, type |-> "UINT", read |-> "int", rtab |-> "", write |-> "None", wtab |-> ""]

(***************************************************************************)
(* The register codec (write direction).                                   *)
(***************************************************************************)
RECURSIVE Pow(_, _)
Pow(a, k) == IF k = 0 THEN 1 ELSE a * Pow(a, k - 1)

\* int.to_bytes(nbytes, "big", signed=signed): OverflowError when the value
\* does not fit, else the big-endian bytes (two's complement when negative).
to_bytes(value, nbytes, signed) ==
    LET top == Pow(256, nbytes)
        lo == IF signed THEN -(top \div 2) ELSE 0
        hi == IF signed THEN (top \div 2) - 1 ELSE top - 1
        u == IF value < 0 THEN value + top ELSE value
    IN  IF value < lo \/ value > hi
        THEN [exc |-> "OverflowError", data |-> <<>>]
        ELSE [exc |-> "",
              data |-> [i \in 1..nbytes |-> (u \div Pow(256, nbytes - i)) % 256]]

\* data[i] << 8 | data[i + 1] for every even i (data has an even length).
bytes_to_registers(data) ==
    [j \in 1..(Len(data) \div 2) |-> data[2 * j - 1] * 256 + data[2 * j]]

uncombine_registers(value, length, signed) ==
    LET r == to_bytes(value, length * 2, signed)
    IN  IF r.exc # "" THEN [exc |-> r.exc, values |-> <<>>]
        ELSE [exc |-> "", values |-> bytes_to_registers(r.data)]

\* registers_to_bytes: two bytes per register, high byte first (registers
\* is a Python list, index 0 is the first element).
registers_to_bytes(registers, start, length) ==
    [i \in 1..(2 * length) |->
        LET r == registers[start + ((i + 1) \div 2)]
        IN  IF i % 2 = 1 THEN r \div 256 ELSE r % 256]

RECURSIVE from_bytes_unsigned(_)
from_bytes_unsigned(data) ==
    IF Len(data) = 0 THEN 0
    ELSE from_bytes_unsigned(SubSeq(data, 1, Len(data) - 1)) * 256 + data[Len(data)]

\* int.from_bytes(data, "big", signed=signed)
from_bytes(data, signed) ==
    LET u == from_bytes_unsigned(data)
    IN  IF signed /\ Len(data) > 0 /\ data[1] >= 128
        THEN u - Pow(256, Len(data)) ELSE u

combine_registers(registers, start, length, signed) ==
    from_bytes(registers_to_bytes(registers, start, length), signed)

\* The read post-process bool of a UINT register.
read_bool(x) == PyBool(x # 0)

\* The CHAR branch of write_config: two bytes per word, a last lone byte
\* taken as it is, then padded with zero words.
char_registers(bytes, length) ==
    LET n == (Len(bytes) + 1) \div 2
        packed == [j \in 1..n |->
                     IF 2 * j <= Len(bytes)
                     THEN bytes[2 * j - 1] * 256 + bytes[2 * j]
                     ELSE bytes[2 * j - 1]]
        padded == packed \o [j \in 1..(IF length > n THEN length - n ELSE 0) |-> 0]
    IN  IF Len(padded) # length
        THEN [exc |-> "ValueError", values |-> <<>>]
        ELSE [exc |-> "", values |-> padded]

\* The write pre-process lambdas of the catalog.
writepreprocess(entry, x) ==
    CASE entry.write = "int" -> PyIntOf(x)
      [] entry.write = "str" -> PyStrOf(x)
      [] entry.write = "str2bool2int" -> str2bool2int(x)
      [] entry.write = "enum" -> EnumW(entry.wtab, x)
      [] entry.write = "enum_str2bool" ->
            LET r == str2bool(x)
            IN  IF r.exc # "" THEN r ELSE EnumW(entry.wtab, r.v)
      [] OTHER ->  \* int(x) * 10
            LET r == PyIntOf(x)
            IN  IF r.exc # "" THEN r ELSE Ret(PyInt(r.v.n * 10))

\* What write_config raises, or the (start, values) it puts on the queue.
\* exc is the Python exception class and msg its message.
Outcome(exc, msg, start, values) ==
    [exc |-> exc, msg |-> msg, start |-> start, values |-> values]

\* write_config from the pre-process on: the value encoded for entry.
encode_value(entry, value) ==
    LET pre == writepreprocess(entry, value)
    IN  IF pre.exc \in {"ValueError", "KeyError"}
        THEN Outcome("ValueError", "Invalid value", 0, <<>>)
        ELSE IF pre.exc # ""
        THEN Outcome(pre.exc, "", 0, <<>>)
        ELSE
        LET enc == IF entry.type = "CHAR"
                   THEN char_registers(pre.v.b, entry.length)
                   ELSE uncombine_registers(pre.v.n, entry.length,
                                            entry.type = "INT")
        IN  IF enc.exc = "ValueError"
            THEN Outcome("ValueError", "Invalid value length", 0, <<>>)
            ELSE IF enc.exc # ""
            THEN Outcome(enc.exc, "", 0, <<>>)
            ELSE Outcome("", "", entry.start, enc.values)

\* Mutant: the test for a missing write pre-process is left out and the
\* value is taken as text.
write_config_result_unchecked(key, value) ==
    IF key \notin DOMAIN HoldingAndWriteRegisters
    THEN Outcome("KeyError", "Invalid key", 0, <<>>)
    ELSE LET entry == HoldingAndWriteRegisters[key]
         IN  encode_value([entry EXCEPT !.write = IF @ = "None" THEN "str" ELSE @],
                          value)

write_config_result(key, value) ==
    IF key \notin DOMAIN HoldingAndWriteRegisters
    THEN Outcome("KeyError", "Invalid key", 0, <<>>)
    ELSE LET entry == HoldingAndWriteRegisters[key]
         IN  IF entry.write = "None"
             THEN Outcome("ValueError", "Register is not writeable", 0, <<>>)
             ELSE encode_value(entry, value)

(***************************************************************************)
(* The HTTP layer (GrowattHTTPHandler).  Text that the code inspects is    *)
(* held as its bytes; a header value is the str that self.headers gives,   *)
(* one latin-1 code per character.                                         *)
(***************************************************************************)
\* str.upper() on ASCII bytes.
Upper(b) == [i \in DOMAIN b |-> IF b[i] \in 97..122 THEN b[i] - 32 ELSE b[i]]

\* s.split(sep, 1): the text before and after the first sep, or s alone.
Split1(s, sep) ==
    IF \E i \in DOMAIN s : s[i] = sep
    THEN LET i == CHOOSE k \in DOMAIN s :
                     s[k] = sep /\ \A j \in 1..(k - 1) : s[j] # sep
         IN  <<SubSeq(s, 1, i - 1), SubSeq(s, i + 1, Len(s))>>
    ELSE <<s>>

\* binascii's table of the base64 alphabet: the six bits of a character,
\* -1 for a character outside the alphabet.
B64Value(c) ==
    CASE c \in 65..90 -> c - 65
      [] c \in 97..122 -> c - 71
      [] c \in 48..57 -> c + 4
      [] c = 43 -> 62
      [] c = 47 -> 63
      [] OTHER -> -1

\* binascii.a2b_base64 (not strict) from character i on.  st: the position
\* in the quad, the bits left over, the pads seen, the bytes so far, and
\* whether a pad sequence has ended the input.
RECURSIVE a2b_base64_from(_, _, _)
a2b_base64_from(s, i, st) ==
    IF i > Len(s) \/ st.done THEN st
    ELSE IF s[i] = 61
    THEN IF st.quad >= 2 /\ st.quad + st.pads + 1 >= 4
         THEN [st EXCEPT !.done = TRUE]
         ELSE a2b_base64_from(s, i + 1,
                  [st EXCEPT !.pads = IF st.quad >= 2 THEN @ + 1 ELSE @])
    ELSE IF B64Value(s[i]) = -1
    THEN a2b_base64_from(s, i + 1, st)
    ELSE LET v == B64Value(s[i])
         IN  a2b_base64_from(s, i + 1,
               CASE st.quad = 0 ->
                      [st EXCEPT !.pads = 0, !.quad = 1, !.left = v]
                 [] st.quad = 1 ->
                      [st EXCEPT !.pads = 0, !.quad = 2, !.left = v % 16,
                                 !.out = Append(@, st.left * 4 + v \div 16)]
                 [] st.quad = 2 ->
                      [st EXCEPT !.pads = 0, !.quad = 3, !.left = v % 4,
                                 !.out = Append(@, st.left * 16 + v \div 4)]
                 [] OTHER ->
                      [st EXCEPT !.pads = 0, !.quad = 0, !.left = 0,
                                 !.out = Append(@, st.left * 64 + v)])

\* base64.b64decode(s) of a str: ValueError when s has a non-ASCII
\* character, binascii.Error when the data characters do not fill their
\* last quad, else the bytes.
b64decode(s) ==
    IF \E i \in DOMAIN s : s[i] > 127 THEN Raise("ValueError")
    ELSE LET st == a2b_base64_from(s, 1,
                       [quad |-> 0, left |-> 0, pads |-> 0, out |-> <<>>,
                        done |-> FALSE])
         IN  IF ~st.done /\ st.quad # 0 THEN Raise("binascii.Error")
             ELSE Ret(PyStr(st.out))

\* Whether bytes.decode("utf-8") accepts b.
RECURSIVE Utf8Valid(_)
Utf8Valid(b) ==
    IF Len(b) = 0 THEN TRUE
    ELSE LET c == b[1]
             n == CASE c < 128 -> 1
                    [] c \in 194..223 -> 2
                    [] c \in 224..239 -> 3
                    [] c \in 240..244 -> 4
                    [] OTHER -> 0
         IN  /\ n # 0
             /\ Len(b) >= n
             /\ \A k \in 2..n : b[k] \in 128..191
             /\ c = 224 => b[2] >= 160
             /\ c = 237 => b[2] <= 159
             /\ c = 240 => b[2] >= 144
             /\ c = 244 => b[2] <= 143
             /\ Utf8Valid(SubSeq(b, n + 1, Len(b)))

\* hash_password: the HMAC-SHA1 digest, taken as a value that its salt and
\* password determine and that no other salt and password give.
hash_password(password, salt) == <<"hmac-sha1", salt, password>>

\* The [WEB] section of config.ini: user "u", salt "s", the hash of "p".
auth ==
    [username |-> <<117>>, password_salt |-> <<115>>,
     password_hash |-> hash_password(<<112>>, <<115>>)]

check_auth(username, password) ==
    /\ username = auth.username
    /\ hash_password(password, auth.password_salt) = auth.password_hash

\* validate_basic_auth_header: the bool it returns, or the exception that
\* leaves it (only binascii.Error is caught).  The credentials are compared
\* as UTF-8 bytes, which decode and encode map one to one.
validate_basic_auth_header(authorization_header) ==
    LET parts == Split1(authorization_header, 32)
    IN  IF Len(parts) < 2 THEN Raise("ValueError")
        ELSE IF Lower(parts[1]) # <<98, 97, 115, 105, 99>> THEN Ret(PyBool(FALSE))
        ELSE LET dec == b64decode(parts[2])
             IN  IF dec.exc = "binascii.Error" THEN Ret(PyBool(FALSE))
                 ELSE IF dec.exc # "" THEN Raise(dec.exc)
                 ELSE IF ~Utf8Valid(dec.v.b) THEN Raise("UnicodeDecodeError")
                 ELSE LET up == Split1(dec.v.b, 58)
                      IN  IF Len(up) < 2 THEN Ret(PyBool(FALSE))
                          ELSE Ret(PyBool(check_auth(up[1], up[2])))

\* What came of handling a request: the responses sent, the exception that
\* left the handler ("" if none), the Device Session calls made, and the
\* key and value handed to write_config (put.called).
NoPut == [called |-> FALSE, key |-> "", value |-> PyInt(0)]
Result(sent, exc, calls, put) ==
    [sent |-> sent, exc |-> exc, calls |-> calls, put |-> put]

\* send_final_response: the status line, the headers and the body; the
\* body is left out of the reply to a HEAD request.
send_final_response(r, code, headers, ctype, body) ==
    [code |-> code,
     headers |-> headers \cup {"Content-Type", "Content-Length", "Connection"},
     ctype |-> ctype,
     body |-> body,
     written |-> r.command # "HEAD"]

CONTENT_TYPE_JSON == "application/json; charset=utf-8"
CONTENT_TYPE_TEXT == "text/plain; charset=utf-8"
CONTENT_TYPE_HTML == "text/html; charset=utf-8"

\* send_error: the JSON envelope {code, message, explain}.
send_error(r, code, message) ==
    send_final_response(r, code, {}, CONTENT_TYPE_JSON,
                        [kind |-> "envelope", code |-> code, text |-> message])

\* parse_qs: the parameters with a value (blank values are dropped).
parse_qs(query) == SelectSeq(query, LAMBDA p : p.text # <<>> \/ p.key # "")

Has(qs, name) == \E i \in DOMAIN qs : qs[i].name = name

\* qs[name][0]
First(qs, name) ==
    qs[CHOOSE i \in DOMAIN qs :
          qs[i].name = name /\ \A j \in 1..(i - 1) : qs[j].name # name]

\* float(text): a decimal number with at most one digit after the point,
\* or inf; ValueError for any other text.
PyFloatOf(text) ==
    LET signed == Len(text) > 0 /\ text[1] \in {43, 45}
        body == IF signed THEN Tail(text) ELSE text
        neg == signed /\ text[1] = 45
        parts == Split1(body, 46)
        whole == parts[1]
        frac == IF Len(parts) = 2 THEN parts[2] ELSE <<>>
        digits(d) == \A i \in DOMAIN d : IsDigit(d[i])
        mag == DigitsValue(whole) * 10 + DigitsValue(frac)
    IN  IF Lower(body) \in {<<105, 110, 102>>, <<105, 110, 102, 105, 110, 105, 116, 121>>}
        THEN Ret([t |-> "float", b |-> <<105, 110, 102>>, n |-> IF neg THEN -1 ELSE 1])
        ELSE IF /\ digits(whole) /\ digits(frac) /\ Len(frac) <= 1
                /\ Len(whole) + Len(frac) > 0
        THEN Ret(PyFloat(IF neg THEN -mag ELSE mag))
        ELSE Raise("ValueError")

\* The value do_PUT hands to write_config: the float of the text if it has
\* one, the int of that float if it is within 1e-3 of it, else the text.
\* int(inf) raises OverflowError, which no except clause of do_PUT takes.
put_value(text) ==
    LET f == PyFloatOf(text)
    IN  IF f.exc # "" THEN Ret(PyStr(text))
        ELSE IF f.v.b # <<>> THEN Raise("OverflowError")
        ELSE IF f.v.n % 10 = 0 THEN PyIntOf(f.v)
        ELSE Ret(f.v)

\* str(exc) of the exceptions of write_config (a KeyError shows the repr of
\* its argument).
str_exc(out) == IF out.exc = "KeyError" THEN "'" \o out.msg \o "'" ELSE out.msg

\* The try block of do_PUT once the value is coerced: out is what comes of
\* write_config(key, value).
do_PUT_write(r, key, value, out) ==
    IF value.exc # "" THEN Result(<<>>, value.exc, <<>>, NoPut)
    ELSE IF out.exc = ""
    THEN Result(<<send_final_response(r, 200, {}, CONTENT_TYPE_TEXT,
                                      [kind |-> "text", code |-> 200,
                                       text |-> "OK"])>>,
                "", <<"write_config">>,
                [called |-> TRUE, key |-> key, value |-> value.v])
    ELSE IF out.exc \in {"KeyError", "ValueError"}
    THEN Result(<<send_error(r, 400, str_exc(out))>>, "",
                <<"write_config">>,
                [called |-> TRUE, key |-> key, value |-> value.v])
    ELSE Result(<<>>, out.exc, <<"write_config">>,
                [called |-> TRUE, key |-> key, value |-> value.v])

\* The coercion of the value and the call of write_config.
do_PUT_coerced(r, key, value) ==
    do_PUT_write(r, key, value, write_config_result(key, value.v))

\* do_PUT, behind its auth_required.
do_PUT_inner(r) ==
    IF r.path # "/config"
    THEN Result(<<send_error(r, 404, "Not Found")>>, "", <<>>, NoPut)
    ELSE IF ~Has(parse_qs(r.query), "key") \/ ~Has(parse_qs(r.query), "value")
    THEN Result(<<send_error(r, 400, "Invalid query")>>, "", <<>>, NoPut)
    ELSE do_PUT_coerced(r, First(parse_qs(r.query), "key").key,
                        put_value(First(parse_qs(r.query), "value").text))

\* Input register 0 (SystemStatus) as a label.
SystemStatusR ==
    0 :> PyStr(<<83, 116, 97, 110, 100, 98, 121>>)  \* 'Standby'
    @@ 1 :> PyStr(<<80, 86, 38, 71, 114, 105, 100, 32, 83, 117, 112, 112, 111, 114, 116, 105, 110, 103, 32, 76, 111, 97, 100, 115>>)  \* 'PV&Grid Supporting Loads'
    @@ 2 :> PyStr(<<66, 97, 116, 116, 101, 114, 121, 32, 68, 105, 115, 99, 104, 97, 114, 103, 105, 110, 103>>)  \* 'Battery Discharging'
    @@ 3 :> PyStr(<<70, 97, 117, 108, 116>>)  \* 'Fault'
    @@ 4 :> PyStr(<<70, 108, 97, 115, 104>>)  \* 'Flash'
    @@ 5 :> PyStr(<<80, 86, 32, 67, 104, 97, 114, 103, 105, 110, 103>>)  \* 'PV Charging'
    @@ 6 :> PyStr(<<71, 114, 105, 100, 32, 67, 104, 97, 114, 103, 105, 110, 103>>)  \* 'Grid Charging'
    @@ 7 :> PyStr(<<80, 86, 38, 71, 114, 105, 100, 32, 67, 104, 97, 114, 103, 105, 110, 103>>)  \* 'PV&Grid Charging'
    @@ 8 :> PyStr(<<80, 86, 38, 71, 114, 105, 100, 32, 67, 104, 97, 114, 103, 105, 110, 103, 43, 71, 114, 105, 100, 32, 66, 121, 112, 97, 115, 115>>)  \* 'PV&Grid Charging+Grid Bypass'
    @@ 9 :> PyStr(<<80, 86, 32, 67, 104, 97, 114, 103, 105, 110, 103, 43, 71, 114, 105, 100, 32, 66, 121, 112, 97, 115, 115>>)  \* 'PV Charging+Grid Bypass'
    @@ 10 :> PyStr(<<71, 114, 105, 100, 32, 67, 104, 97, 114, 103, 105, 110, 103, 43, 71, 114, 105, 100, 32, 66, 121, 112, 97, 115, 115>>)  \* 'Grid Charging+Grid Bypass'
    @@ 11 :> PyStr(<<71, 114, 105, 100, 32, 66, 121, 112, 97, 115, 115>>)  \* 'Grid Bypass'
    @@ 12 :> PyStr(<<80, 86, 32, 67, 104, 97, 114, 103, 105, 110, 103, 43, 76, 111, 97, 100, 115, 32, 83, 117, 112, 112, 111, 114, 116, 105, 110, 103>>)  \* 'PV Charging+Loads Supporting'
    @@ 13 :> PyStr(<<69, 120, 112, 111, 114, 116, 32, 116, 111, 32, 71, 114, 105, 100>>)  \* 'Export to Grid'

\* registers_to_char: the bytes of the registers decoded as UTF-8 (nothing
\* is stripped).
registers_to_char(registers, start, length) ==
    LET data == registers_to_bytes(registers, start, length)
    IN  IF Utf8Valid(data) THEN Ret(PyStr(data))
        ELSE Raise("UnicodeDecodeError")

generic_read_postprocess(registers, start, length, type) ==
    IF type = "CHAR" THEN registers_to_char(registers, start, length)
    ELSE Ret(PyInt(combine_registers(registers, start, length, type = "INT")))

\* The read post-process lambdas of the holding catalog.  x / 10 is held in
\* tenths and x / 100 in hundredths.
readpostprocess(entry, x) ==
    CASE entry.read = "int" -> Ret(PyInt(x.n))
      [] entry.read = "div10" -> Ret(PyFloat(x.n))
      [] entry.read = "div100" -> Ret([t |-> "float100", b |-> <<>>, n |-> x.n])
      [] entry.read = "bool" -> Ret(read_bool(x.n))
      [] entry.read = "enum" ->
            IF x.n \in DOMAIN EnumR(entry.rtab)
            THEN Ret(EnumR(entry.rtab)[x.n]) ELSE Raise("KeyError")
      [] OTHER -> Ret(x)  \* str

\* info[key] of read_config for an entry whose words are values: the words
\* decoded at the entry's place in the registers read.
read_entry(entry, values) ==
    LET reg == [i \in 1..(entry.start + entry.length) |->
                  IF i > entry.start THEN values[i - entry.start] ELSE 0]
        x == generic_read_postprocess(reg, entry.start, entry.length,
                                      entry.type)
    IN  IF x.exc # "" THEN x ELSE readpostprocess(entry, x.v)

\* The input-register catalog: start, length, type and post-process (a
\* division by 10, 100 or 2, int, or the SystemStatusR lookup).
InputRegisters ==
    "SystemStatus" :> [start |-> 0, length |-> 1, type |-> "UINT", post |-> "SystemStatusR"] @@
    "PV1Volt" :> [start |-> 1, length |-> 1, type |-> "UINT", post |-> "div10"] @@
    "PV2Volt" :> [start |-> 2, length |-> 1, type |-> "UINT", post |-> "div10"] @@
    "PV1Watt" :> [start |-> 3, length |-> 2, type |-> "UINT", post |-> "div10"] @@
    "PV2Watt" :> [start |-> 5, length |-> 2, type |-> "UINT", post |-> "div10"] @@
    "PV1Amps" :> [start |-> 7, length |-> 1, type |-> "UINT", post |-> "div10"] @@
    "PV2Amps" :> [start |-> 8, length |-> 1, type |-> "UINT", post |-> "div10"] @@
    "OutputWatt" :> [start |-> 9, length |-> 2, type |-> "UINT", post |-> "div10"] @@
    "OutputVA" :> [start |-> 11, length |-> 2, type |-> "UINT", post |-> "div10"] @@
    "ACChrWatt" :> [start |-> 13, length |-> 2, type |-> "UINT", post |-> "div10"] @@
    "ACChrVA" :> [start |-> 15, length |-> 2, type |-> "UINT", post |-> "div10"] @@
    "BatteryVolt" :> [start |-> 17, length |-> 1, type |-> "UINT", post |-> "div100"] @@
    "BatterySOC" :> [start |-> 18, length |-> 1, type |-> "UINT", post |-> "int"] @@
    "BusVolt" :> [start |-> 19, length |-> 1, type |-> "UINT", post |-> "div10"] @@
    "GridVolt" :> [start |-> 20, length |-> 1, type |-> "UINT", post |-> "div10"] @@
    "LineFreq" :> [start |-> 21, length |-> 1, type |-> "UINT", post |-> "div100"] @@
    "OutputACVolt" :> [start |-> 22, length |-> 1, type |-> "UINT", post |-> "div10"] @@
    "OutputACFreq" :> [start |-> 23, length |-> 1, type |-> "UINT", post |-> "div100"] @@
    "OutputDCVolt" :> [start |-> 24, length |-> 1, type |-> "UINT", post |-> "div10"] @@
    "InvTempC" :> [start |-> 25, length |-> 1, type |-> "INT", post |-> "div10"] @@
    "DCDCTempC" :> [start |-> 26, length |-> 1, type |-> "INT", post |-> "div10"] @@
    "LoadPercent" :> [start |-> 27, length |-> 1, type |-> "UINT", post |-> "div10"] @@
    "BatteryPortVolt" :> [start |-> 28, length |-> 1, type |-> "UINT", post |-> "div100"] @@
    "BatteryBusVolt" :> [start |-> 29, length |-> 1, type |-> "UINT", post |-> "div100"] @@
    "WorkTimeTotalSeconds" :> [start |-> 30, length |-> 2, type |-> "UINT", post |-> "div2"] @@
    "Buck1TempC" :> [start |-> 32, length |-> 1, type |-> "INT", post |-> "div10"] @@
    "Buck2TempC" :> [start |-> 33, length |-> 1, type |-> "INT", post |-> "div10"] @@
    "OutputAmps" :> [start |-> 34, length |-> 1, type |-> "UINT", post |-> "div10"] @@
    "InvAmps" :> [start |-> 35, length |-> 1, type |-> "UINT", post |-> "div10"] @@
    "ACInputWatt" :> [start |-> 36, length |-> 2, type |-> "INT", post |-> "div10"] @@
    "ACInputVA" :> [start |-> 38, length |-> 2, type |-> "UINT", post |-> "div10"] @@
    "FaultBit" :> [start |-> 40, length |-> 1, type |-> "UINT", post |-> "int"] @@
    "WarningBit" :> [start |-> 41, length |-> 1, type |-> "UINT", post |-> "int"] @@
    "WarningBitHigh" :> [start |-> 42, length |-> 1, type |-> "UINT", post |-> "int"] @@
    "WarningValue" :> [start |-> 43, length |-> 1, type |-> "UINT", post |-> "int"] @@
    "DeviceTypeCode" :> [start |-> 44, length |-> 1, type |-> "UINT", post |-> "int"] @@
    "ExportToGridTodaykWh" :> [start |-> 45, length |-> 1, type |-> "UINT", post |-> "div10"] @@
    "ExportToGridTotalkWh" :> [start |-> 46, length |-> 2, type |-> "UINT", post |-> "div10"] @@
    "PV1EnergyTodaykWh" :> [start |-> 48, length |-> 2, type |-> "UINT", post |-> "div10"] @@
    "PV1EnergyTotalkWh" :> [start |-> 50, length |-> 2, type |-> "UINT", post |-> "div10"] @@
    "PV2EnergyTodaykWh" :> [start |-> 52, length |-> 2, type |-> "UINT", post |-> "div10"] @@
    "PV2EnergyTotalkWh" :> [start |-> 54, length |-> 2, type |-> "UINT", post |-> "div10"] @@
    "ACChargeEnergyTodaykWh" :> [start |-> 56, length |-> 2, type |-> "UINT", post |-> "div10"] @@
    "ACChargeEnergyTotalkWh" :> [start |-> 58, length |-> 2, type |-> "UINT", post |-> "div10"] @@
    "BatteryDischargeEnergyTodaykWh" :> [start |-> 60, length |-> 2, type |-> "UINT", post |-> "div10"] @@
    "BatteryDischargeEnergyTotalkWh" :> [start |-> 62, length |-> 2, type |-> "UINT", post |-> "div10"] @@
    "ACDischargeEnergyTodaykWh" :> [start |-> 64, length |-> 2, type |-> "UINT", post |-> "div10"] @@
    "ACDischargeEnergyTotalkWh" :> [start |-> 66, length |-> 2, type |-> "UINT", post |-> "div10"] @@
    "ACChargeBatteryAmps" :> [start |-> 68, length |-> 1, type |-> "UINT", post |-> "div10"] @@
    "ACDischargeWatt" :> [start |-> 69, length |-> 2, type |-> "UINT", post |-> "div10"] @@
    "ACDischargeVA" :> [start |-> 71, length |-> 2, type |-> "UINT", post |-> "div10"] @@
    "BatteryDischargeWatt" :> [start |-> 73, length |-> 2, type |-> "UINT", post |-> "div10"] @@
    "BatteryDischargeVA" :> [start |-> 75, length |-> 2, type |-> "UINT", post |-> "div10"] @@
    "BatteryWatt" :> [start |-> 77, length |-> 2, type |-> "INT", post |-> "div10"] @@
    "MpptFanSpeedPercent" :> [start |-> 81, length |-> 1, type |-> "UINT", post |-> "int"] @@
    "InvFanSpeedPercent" :> [start |-> 82, length |-> 1, type |-> "UINT", post |-> "int"] @@
    "TotalChargeAmps" :> [start |-> 83, length |-> 1, type |-> "UINT", post |-> "div10"] @@
    "TotalDischargeAmps" :> [start |-> 84, length |-> 1, type |-> "UINT", post |-> "div10"] @@
    "OPDischargeEnergyTodaykWh" :> [start |-> 85, length |-> 2, type |-> "UINT", post |-> "div10"] @@
    "OPDischargeEnergyTotalkWh" :> [start |-> 87, length |-> 2, type |-> "UINT", post |-> "div10"] @@
    "ParaSystemChargeAmps" :> [start |-> 90, length |-> 1, type |-> "UINT", post |-> "div10"]

\* The inverter as the reads of one request find it: fail is the read call
\* that raises ModbusException (0: none), input0 and holding0 are the words
\* of input register 0 (SystemStatus) and holding register 0 (OnOff).
Devices ==
    { [fail |-> 0, input0 |-> 0, holding0 |-> 0],
      [fail |-> 1, input0 |-> 0, holding0 |-> 0],
      [fail |-> 2, input0 |-> 0, holding0 |-> 0],
      [fail |-> 0, input0 |-> 14, holding0 |-> 0],
      [fail |-> 0, input0 |-> 0, holding0 |-> 2] }

\* Mutant: read_status asks for 90 registers.
InputWords_short(dev) == [i \in 1..90 |-> IF i = 1 THEN dev.input0 ELSE 0]

\* row.registers of read_input_registers(0, 91): SystemStatus as dev has it
\* and zero everywhere else.
InputWords(dev) == [i \in 1..91 |-> IF i = 1 THEN dev.input0 ELSE 0]

\* The holding registers of the inverter by offset: OnOff as dev has it,
\* SafetyType Standard, BurnInTestEnable on, BLVersion2 7, zero elsewhere.
DeviceHolding(dev) ==
    [o \in 0..162 |->
        CASE o = 0 -> dev.holding0
          [] o = 42 -> 1
          [] o = 101 -> 1
          [] o = 162 -> 7
          [] OTHER -> 0]

\* client.read_holding_registers(address, count).registers
read_holding_registers(dev, address, count) ==
    [i \in 1..count |-> DeviceHolding(dev)[address + i - 1]]

\* The two reads of read_config.
ReadConfigCalls ==
    <<[address |-> 0, count |-> 101], [address |-> 101, count |-> 62]>>

\* Mutant: the second read starts at the last register of the first.
HoldingWords_overlapping(dev) ==
    read_holding_registers(dev, 0, 101) \o read_holding_registers(dev, 100, 62)

\* reg = row1.registers + row2.registers
HoldingWords(dev) ==
    read_holding_registers(dev, ReadConfigCalls[1].address,
                           ReadConfigCalls[1].count)
    \o read_holding_registers(dev, ReadConfigCalls[2].address,
                              ReadConfigCalls[2].count)

\* read_status: the exception that leaves it, or the SystemStatus of the
\* mapping it returns (every other post-process of InputRegisters is int or
\* a division of an int and does not raise).
read_status(dev) ==
    IF dev.fail = 1 THEN Raise("ModbusException")
    ELSE LET x == combine_registers(InputWords(dev), 0, 1, FALSE)
         IN  IF x \in DOMAIN SystemStatusR THEN Ret(SystemStatusR[x])
             ELSE Raise("KeyError")

\* The exception that decoding one entry of the holding catalog raises, ""
\* if none: registers_to_char decodes UTF-8, an enumeration is a dict lookup.
read_raises(entry, reg) ==
    IF entry.type = "CHAR"
    THEN IF Utf8Valid(registers_to_bytes(reg, entry.start, entry.length))
         THEN "" ELSE "UnicodeDecodeError"
    ELSE IF /\ entry.read = "enum"
            /\ combine_registers(reg, entry.start, entry.length,
                                 entry.type = "INT")
                  \notin DOMAIN EnumR(entry.rtab)
    THEN "KeyError" ELSE ""

\* read_config: the exception that leaves it (the catalog is gone through
\* by rising offset), or the OnOff of the mapping it returns.
read_config(dev) ==
    LET reg == HoldingWords(dev)
        C == HoldingAndWriteRegisters
        bad == {k \in DOMAIN C : read_raises(C[k], reg) # ""}
        first == CHOOSE k \in bad : \A j \in bad : C[k].start <= C[j].start
    IN  IF dev.fail # 0 THEN Raise("ModbusException")
        ELSE IF bad # {} THEN Raise(read_raises(C[first], reg))
        ELSE Ret(EnumR("OnOffR")[combine_registers(reg, 0, 1, FALSE)])

\* The exception that decoding one entry of the input catalog raises, "" if
\* none: only the SystemStatusR lookup can raise.
status_raises(entry, reg) ==
    IF /\ entry.post = "SystemStatusR"
       /\ combine_registers(reg, entry.start, entry.length,
                            entry.type = "INT")
             \notin DOMAIN SystemStatusR
    THEN "KeyError" ELSE ""

\* The keys of info when the loop over catalog C ends or is left: the loop
\* adds a key per entry in the order of the catalog (rising offset) and is
\* left at the first entry of bad, the entries whose decoding raises.
info_keys(C, bad) ==
    IF bad = {} THEN DOMAIN C
    ELSE {k \in DOMAIN C : \A b \in bad : C[k].start < C[b].start}

\* read_status and read_config as the mapping they hand back: whether
\* `return info` is reached, and the keys info then has.
read_status_info(dev) ==
    [returned |-> read_status(dev).exc = "",
     keys |-> info_keys(InputRegisters,
                  {k \in DOMAIN InputRegisters :
                      status_raises(InputRegisters[k], InputWords(dev)) # ""})]

read_config_info(dev) ==
    [returned |-> read_config(dev).exc = "",
     keys |-> info_keys(HoldingAndWriteRegisters,
                  {k \in DOMAIN HoldingAndWriteRegisters :
                      read_raises(HoldingAndWriteRegisters[k],
                                  HoldingWords(dev)) # ""})]

\* The 401 of auth_required.
Unauthorized(r) ==
    Result(<<send_final_response(r, 401, {"WWW-Authenticate"},
                                 CONTENT_TYPE_TEXT,
                                 [kind |-> "text", code |-> 401,
                                  text |-> "Unauthorized"])>>,
           "", <<>>, NoPut)

\* auth_required: func runs (inner is what comes of it) only behind an
\* Authorization header that validates.
auth_required(r, inner) ==
    IF ~r.auth.has THEN Unauthorized(r)
    ELSE LET ok == validate_basic_auth_header(r.auth.v)
         IN  IF ok.exc # "" THEN Result(<<>>, ok.exc, <<>>, NoPut)
             ELSE IF ok.v.n = 1 THEN inner
             ELSE Unauthorized(r)

do_PUT(r) == auth_required(r, do_PUT_inner(r))

\* 200 with the JSON of the mapping, 500 for a ModbusException; any other
\* exception leaves do_GET.
send_read(r, out, calls) ==
    IF out.exc = ""
    THEN Result(<<send_final_response(r, 200, {}, CONTENT_TYPE_JSON,
                                      [kind |-> "json", code |-> 200,
                                       text |-> ""])>>,
                "", calls, NoPut)
    ELSE IF out.exc = "ModbusException"
    THEN Result(<<send_error(r, 500, "ModbusException")>>, "", calls, NoPut)
    ELSE Result(<<>>, out.exc, calls, NoPut)

\* do_GET, behind its auth_required.  (The repr of the method is left out
\* of the text of the 501.)
do_GET_inner(r, dev) ==
    LET qs == parse_qs(r.query)
        method == Upper(First(qs, "_method").text)
    IN  IF Has(qs, "_method")
        THEN CASE method = <<80, 85, 84>> -> do_PUT(r)
               [] method = <<71, 69, 84>> -> Result(<<>>, "", <<>>, NoPut)
               [] method = <<72, 69, 65, 68>> ->
                    Result(<<send_error(r, 400,
                                 "HEAD method not supported for _method")>>,
                           "", <<>>, NoPut)
               [] OTHER ->
                    Result(<<send_error(r, 501, "Unsupported method")>>,
                           "", <<>>, NoPut)
        ELSE CASE r.path = "/" ->
                    Result(<<send_final_response(r, 200, {}, CONTENT_TYPE_HTML,
                                                 [kind |-> "html", code |-> 200,
                                                  text |-> "INDEX_HTML"])>>,
                           "", <<>>, NoPut)
               [] r.path = "/status" ->
                    send_read(r, read_status(dev), <<"read_input_registers">>)
               [] r.path = "/config" ->
                    send_read(r, read_config(dev),
                              IF dev.fail = 1
                              THEN <<"read_holding_registers">>
                              ELSE <<"read_holding_registers",
                                     "read_holding_registers">>)
               [] OTHER ->
                    Result(<<send_error(r, 404, "Not Found")>>, "", <<>>, NoPut)

do_GET(r, dev) == auth_required(r, do_GET_inner(r, dev))

do_HEAD(r, dev) == auth_required(r, do_GET(r, dev))

\* handle_one_request: the do_ method of the request's command.
handle_one_request(r, dev) ==
    CASE r.command = "HEAD" -> do_HEAD(r, dev)
      [] r.command = "GET" -> do_GET(r, dev)
      [] OTHER -> do_PUT(r)

\* The requests the modelled clients send.  The Authorization values:
\*   b'Basic dTpw'        u:p
\*   b'basic dTpw'        u:p, the scheme in lower case
\*   b'Basic dTp-w'       u:p with a character outside the alphabet
\*   b'Basic dTpx'        u:x
\*   b'Basic djpw'        v:p
\*   b'Basic dXA='        up, no colon
\*   b'Bearer dTpw'       another scheme
\*   b'Basic d'           one data character
\*   b'Basic'             no space
\*   b'Basic /w=='        the byte 0xFF
\*   b'Basic \xe9'        a non-ASCII character
AuthValues ==
    { <<66, 97, 115, 105, 99, 32, 100, 84, 112, 119>>,
      <<98, 97, 115, 105, 99, 32, 100, 84, 112, 119>>,
      <<66, 97, 115, 105, 99, 32, 100, 84, 112, 45, 119>>,
      <<66, 97, 115, 105, 99, 32, 100, 84, 112, 120>>,
      <<66, 97, 115, 105, 99, 32, 100, 106, 112, 119>>,
      <<66, 97, 115, 105, 99, 32, 100, 88, 65, 61>>,
      <<66, 101, 97, 114, 101, 114, 32, 100, 84, 112, 119>>,
      <<66, 97, 115, 105, 99, 32, 100>>,
      <<66, 97, 115, 105, 99>>,
      <<66, 97, 115, 105, 99, 32, 47, 119, 61, 61>>,
      <<66, 97, 115, 105, 99, 32, 233>> }

AuthHeaders ==
    {[has |-> FALSE, v |-> <<>>]} \cup {[has |-> TRUE, v |-> a] : a \in AuthValues}

\* One parameter of the query string; the key parameter carries the name of
\* the key.
Param(name, text, key) == [name |-> name, text |-> text, key |-> key]

MethodParams ==
    {<<>>} \cup {<<Param("_method", t, "")>> :
                   t \in {<<80, 85, 84>>, <<112, 117, 116>>, <<71, 69, 84>>, <<72, 69, 65, 68>>, <<68, 69, 76, 69, 84, 69>>}}

KeyParams ==
    {<<>>} \cup {<<Param("key", <<>>, k)>> :
                   k \in {"BuzzerEnable", "FWVersion", "UtiOutStart", "NoSuchKey"}}

\* value= (blank), true, maybe, 1, -1, inf
ValueParams ==
    {<<>>} \cup {<<Param("value", t, "")>> :
                   t \in {<<>>, <<116, 114, 117, 101>>, <<109, 97, 121, 98, 101>>, <<49>>, <<45, 49>>, <<105, 110, 102>>}}

\* Every method, path and query string with the right credentials, and
\* every Authorization value on the two data paths with no query, with a
\* write of BuzzerEnable, and with that write behind _method=PUT.
Requests ==
    [command : {"HEAD", "GET", "PUT"},
     auth : {[has |-> TRUE, v |-> <<66, 97, 115, 105, 99, 32, 100, 84, 112, 119>>]},
     path : {"/", "/status", "/config", "/nope"},
     query : {m \o k \o v : m \in MethodParams, k \in KeyParams,
                            v \in ValueParams}]
    \cup
    [command : {"HEAD", "GET", "PUT"},
     auth : AuthHeaders,
     path : {"/status", "/config"},
     query : {m \o <<Param("key", <<>>, "BuzzerEnable"),
                     Param("value", <<116, 114, 117, 101>>, "")>> :
                 m \in {<<>>, <<Param("_method", <<80, 85, 84>>, "")>>}}
             \cup {<<>>}]

(***************************************************************************)
(* The session: threads, the guard lock, the transport, the write queue.   *)
(***************************************************************************)
\* GrowattModbusClient.MIN_WAIT_TIME_BETWEEN_CMDS, in seconds.
MIN_WAIT_TIME_BETWEEN_CMDS == 1

\* HTTP handler threads serving requests at the same time.
NumHandlers == 2
\* HTTP requests (GET and PUT together) made in one run.
MaxRequests == 2
\* The same for the runs checked under fair scheduling.
MaxFairRequests == 1

Main == <<"main", 0>>
Sync == <<"sync", 0>>
Drain == <<"drain", 0>>
Defer == <<"defer", 0>>
Handlers == {<<"http", i>> : i \in 1..NumHandlers}
Threads == {Main, Sync, Drain, Defer} \cup Handlers
Free == <<"free", 0>>

\* The keys and values the modelled HTTP clients ask to write.
ReqKeys == {"BuzzerEnable", "SerialNumber", "FWVersion", "NoSuchKey"}
ReqValues == { PyStr(<<116, 114, 117, 101>>),      \* "true"
               PyStr(<<102, 97, 108, 115, 101>>) } \* "false"

VARIABLES
    pc,               \* where each thread is in its code
    exc,              \* whether an exception is propagating in a thread
    lock,             \* GrowattModbusClient.lock: Free, or the thread that is to release it
    inflight,         \* the threads inside a call of the pymodbus client
    port,             \* the serial transport: "new", "open", "closed"
    sync_time_event,  \* GrowattInverter.sync_time_event
    write_event,      \* GrowattInverter.write_event
    write_queue,      \* GrowattInverter.write_queue: (start, values) pairs
    requested,        \* write_registers' dict, in insertion order: (offset, word) pairs
    ri,               \* write_registers' position in requested.items()
    timer,            \* seconds a sleeping thread still has to sleep
    sinceWrite,       \* seconds since the last write transaction ended (saturating)
    batch,            \* history: the queue entries taken in the current drain cycle
    issued,           \* history: the (offset, word) writes begun in the current drain cycle
    budget,           \* HTTP requests the clients may still make in this run
    req,              \* per handler: the write_config call it made, its outcome,
                      \* and (history) whether the lock was held at the call
    traced,           \* whether this run follows the device register and keeps
                      \* the histories below; they stay as they start otherwise
    holding,          \* the device's holding register of BuzzerEnable
    order,            \* history: the handlers blocked in lock.acquire(), first come first
    lastPut,          \* history: the word of the last accepted write of BuzzerEnable, -1: none
    ack,              \* history: the word of the last PUT of BuzzerEnable answered 200, -1: none
    got,              \* history, per handler: what its read_config saw of BuzzerEnable
    faulty,           \* history: some call of the pymodbus client has raised
    http              \* the HTTP exchange served last: the request and what came of it

obsVars == <<traced, holding, order, lastPut, ack, got, faulty, http>>

vars == <<pc, exc, lock, inflight, port, sync_time_event, write_event,
          write_queue, requested, ri, timer, sinceWrite, batch, issued,
          budget, req, obsVars>>

Sleepers == {Sync, Drain, Defer}

\* A thread calls lock.acquire() while the lock is taken: it blocks behind
\* those already blocked.
Arrive(t) == IF traced /\ lock # Free THEN Append(order, t) ELSE order

\* lock.acquire() returns in thread t.
Leave(t) == SelectSeq(order, LAMBDA x : x # t)

\* Queue entry e = (start, values) covers register o.
Covers(e, o) == o \in e[1]..(e[1] + Len(e[2]) - 1)

\* The register of BuzzerEnable.
BuzzerStart == HoldingAndWriteRegisters["BuzzerEnable"].start

NoReq == [key |-> "", value |-> PyInt(0), out |-> Outcome("", "", 0, <<>>),
          busy |-> FALSE]

InitWith(requests) ==
    /\ pc = [t \in Threads |->
               CASE t = Main -> "init"
                 [] t \in {Sync, Drain} -> "unstarted"
                 [] OTHER -> "idle"]
    /\ exc = [t \in Threads |-> FALSE]
    /\ lock = Free
    /\ inflight = {}
    /\ port = "new"
    /\ sync_time_event = FALSE
    /\ write_event = FALSE
    /\ write_queue = <<>>
    /\ requested = <<>>
    /\ ri = 1
    /\ timer = [t \in Sleepers |-> 0]
    /\ sinceWrite = MIN_WAIT_TIME_BETWEEN_CMDS
    /\ batch = <<>>
    /\ issued = <<>>
    /\ budget = requests
    /\ req = [h \in Handlers |-> NoReq]

\* value: the BuzzerEnable the read reported (-1: none yet); after: ack when
\* the GET began; settled: lastPut at the read if the channel had been
\* healthy and no word for the register was still on its way, else -1.
NoGot == [value |-> -1, after |-> -1, settled |-> -1]

\* No request has been served.
NoHttp ==
    [served |-> FALSE, h |-> Main,
     r |-> [command |-> "", auth |-> [has |-> FALSE, v |-> <<>>],
            path |-> "", query |-> <<>>],
     dev |-> [fail |-> 0, input0 |-> 0, holding0 |-> 0],
     res |-> Result(<<>>, "", <<>>, NoPut), before |-> <<>>]

\* The device register and the histories at the start; the buzzer is off.
ObsInit(on) ==
    /\ traced = on
    /\ holding = 0
    /\ order = <<>>
    /\ lastPut = -1
    /\ ack = -1
    /\ got = [h \in Handlers |-> NoGot]
    /\ faulty = FALSE
    /\ http = NoHttp

Init == InitWith(MaxRequests) /\ ObsInit(FALSE)

Goto(t, to) == pc' = [pc EXCEPT ![t] = to]

(***************************************************************************)
(* GrowattModbusClient.lock_wrapper                                        *)
(***************************************************************************)
\* Mutant: the call goes ahead without waiting for the lock.
lock_acquire_nowait(t) == lock' = t

\* self.lock.acquire(): blocks until the lock is free.
lock_acquire(t) == lock = Free /\ lock' = t

\* Mutant: the release is left out.
lock_release_skipped == UNCHANGED lock

\* self.lock.release()
lock_release == lock' = Free

\* Mutant: the sleep before the release is left out.
quiet_sleep_none(t) == timer' = [timer EXCEPT ![t] = 0]

\* sleep(self.MIN_WAIT_TIME_BETWEEN_CMDS) of wait_and_release and sync_time.
quiet_sleep(t) == timer' = [timer EXCEPT ![t] = MIN_WAIT_TIME_BETWEEN_CMDS]

\* try: acquire the lock, then enter func: the pymodbus call is in flight.
wrapper_call(t, at, to) ==
    /\ pc[t] = at
    /\ lock_acquire(t)
    /\ inflight' = inflight \cup {t}
    /\ Goto(t, to)

\* func returns (failed = FALSE) or raises (failed = TRUE); a write ending
\* restarts the quiet time.
wrapper_return(t, at, to, failed, isWrite) ==
    /\ pc[t] = at
    /\ t \in inflight
    /\ inflight' = inflight \ {t}
    /\ exc' = [exc EXCEPT ![t] = failed]
    /\ sinceWrite' = IF isWrite THEN 0 ELSE sinceWrite
    /\ Goto(t, to)

\* Mutant: the release sits after the call instead of in a finally, so an
\* exception skips it.
wrapper_release_unless_raised(t, at, to) ==
    /\ pc[t] = at
    /\ IF exc[t] THEN UNCHANGED lock ELSE lock_release
    /\ Goto(t, to)

\* finally, enforce_wait_time = False: release at once.
wrapper_release(t, at, to) ==
    /\ pc[t] = at
    /\ lock_release
    /\ Goto(t, to)

\* Mutant: a write releases at once like a read, no thread and no delay.
wrapper_defer_release_now(t, at, to) ==
    /\ pc[t] = at
    /\ lock_release
    /\ UNCHANGED timer
    /\ Goto(t, to)

\* finally, enforce_wait_time = True: Thread(target=wait_and_release).start()
\* succeeds; the new thread sleeps and will release, the caller goes on.
wrapper_defer(t, at, to) ==
    /\ pc[t] = at
    /\ pc[Defer] = "idle"
    /\ lock' = Defer
    /\ quiet_sleep(Defer)
    /\ pc' = [pc EXCEPT ![t] = to, ![Defer] = "sleep"]

\* finally, enforce_wait_time = True: the thread cannot be started; the
\* caller runs wait_and_release itself.
wrapper_inline(t, at, to) ==
    /\ pc[t] = at
    /\ quiet_sleep(t)
    /\ Goto(t, to)

\* wait_and_release after its sleep: release the lock.
wait_and_release(t, at, to) ==
    /\ pc[t] = at
    /\ timer[t] = 0
    /\ lock_release
    /\ Goto(t, to)

sessionVars == <<port, sync_time_event, write_event>>
queueVars == <<write_queue, requested, ri, batch, issued>>
reqVars == <<budget, req>>

(***************************************************************************)
(* main and GrowattInverter.connect / close                                *)
(***************************************************************************)
\* connect: self.client.connect() under the lock wrapper.
MainConnectCall ==
    /\ wrapper_call(Main, "init", "connect_call")
    /\ UNCHANGED <<exc, sessionVars, queueVars, timer, sinceWrite, reqVars, obsVars>>

MainConnectReturn ==
    /\ wrapper_return(Main, "connect_call", "connect_fin", FALSE, FALSE)
    /\ port' = "open"
    /\ UNCHANGED <<lock, sync_time_event, write_event, queueVars, timer, reqVars,
                   obsVars>>

MainConnectRelease ==
    /\ wrapper_release(Main, "connect_fin", "start_sync")
    /\ UNCHANGED <<exc, inflight, sessionVars, queueVars, timer, sinceWrite, reqVars,
                   obsVars>>

\* connect: self.sync_time_thread.start()
MainStartSync ==
    /\ pc[Main] = "start_sync"
    /\ pc[Sync] = "unstarted"
    /\ pc' = [pc EXCEPT ![Main] = "start_write", ![Sync] = "acquire"]
    /\ UNCHANGED <<exc, lock, inflight, sessionVars, queueVars, timer,
                   sinceWrite, reqVars, obsVars>>

\* connect: self.write_thread.start(); main then serves HTTP.
MainStartWrite ==
    /\ pc[Main] = "start_write"
    /\ pc[Drain] = "unstarted"
    /\ pc' = [pc EXCEPT ![Main] = "serve", ![Drain] = "wait"]
    /\ UNCHANGED <<exc, lock, inflight, sessionVars, queueVars, timer,
                   sinceWrite, reqVars, obsVars>>

\* main: serve_forever ends (KeyboardInterrupt) and inverter.close() begins.
MainInterrupt ==
    /\ pc[Main] = "serve"
    /\ Goto(Main, "close")
    /\ UNCHANGED <<exc, lock, inflight, sessionVars, queueVars, timer,
                   sinceWrite, reqVars, obsVars>>

\* close: self.client.close() under the lock wrapper.
MainCloseCall ==
    /\ wrapper_call(Main, "close", "close_call")
    /\ UNCHANGED <<exc, sessionVars, queueVars, timer, sinceWrite, reqVars, obsVars>>

MainCloseReturn ==
    /\ wrapper_return(Main, "close_call", "close_fin", FALSE, FALSE)
    /\ port' = "closed"
    /\ UNCHANGED <<lock, sync_time_event, write_event, queueVars, timer, reqVars,
                   obsVars>>

MainCloseRelease ==
    /\ wrapper_release(Main, "close_fin", "set_sync_event")
    /\ UNCHANGED <<exc, inflight, sessionVars, queueVars, timer, sinceWrite, reqVars,
                   obsVars>>

\* close: self.sync_time_event.set()
MainSetSyncEvent ==
    /\ pc[Main] = "set_sync_event"
    /\ sync_time_event' = TRUE
    /\ Goto(Main, "join_sync")
    /\ UNCHANGED <<exc, lock, inflight, port, write_event, queueVars, timer,
                   sinceWrite, reqVars, obsVars>>

\* close: self.sync_time_thread.join()
MainJoinSync ==
    /\ pc[Main] = "join_sync"
    /\ pc[Sync] \in {"done", "unstarted"}
    /\ Goto(Main, "set_write_event")
    /\ UNCHANGED <<exc, lock, inflight, sessionVars, queueVars, timer,
                   sinceWrite, reqVars, obsVars>>

\* close: self.write_event.set()
MainSetWriteEvent ==
    /\ pc[Main] = "set_write_event"
    /\ write_event' = TRUE
    /\ Goto(Main, "join_write")
    /\ UNCHANGED <<exc, lock, inflight, port, sync_time_event, queueVars,
                   timer, sinceWrite, reqVars, obsVars>>

\* close: self.write_thread.join(); close returns.
MainJoinWrite ==
    /\ pc[Main] = "join_write"
    /\ pc[Drain] \in {"done", "unstarted"}
    /\ Goto(Main, "closed")
    /\ UNCHANGED <<exc, lock, inflight, sessionVars, queueVars, timer,
                   sinceWrite, reqVars, obsVars>>

(***************************************************************************)
(* GrowattInverter.sync_time                                               *)
(***************************************************************************)
\* self.client.lock.acquire()
SyncAcquire ==
    /\ pc[Sync] = "acquire"
    /\ lock_acquire(Sync)
    /\ Goto(Sync, "align")
    /\ UNCHANGED <<exc, inflight, sessionVars, queueVars, timer, sinceWrite,
                   reqVars, obsVars>>

\* After the sleep to the next exact second: write_registers_unsafe(45, values).
SyncWriteBegin ==
    /\ pc[Sync] = "align"
    /\ inflight' = inflight \cup {Sync}
    /\ Goto(Sync, "write")
    /\ UNCHANGED <<exc, lock, sessionVars, queueVars, timer, sinceWrite, reqVars,
                   obsVars>>

\* Mutant: no except clause, an exception of the write ends the thread.
SyncWriteEnd_fatal ==
    /\ pc[Sync] = "write"
    /\ inflight' = inflight \ {Sync}
    /\ sinceWrite' = 0
    /\ quiet_sleep(Sync)
    /\ \E failed \in BOOLEAN :
          /\ exc' = [exc EXCEPT ![Sync] = failed]
          /\ Goto(Sync, IF failed THEN "done" ELSE "quiet")
    /\ UNCHANGED <<lock, sessionVars, queueVars, reqVars, obsVars>>

\* The write returns or raises (caught and logged: exc[Sync] marks the
\* round as failed until its finally is over); finally: the quiet sleep.
SyncWriteEnd ==
    /\ pc[Sync] = "write"
    /\ inflight' = inflight \ {Sync}
    /\ sinceWrite' = 0
    /\ quiet_sleep(Sync)
    /\ \E failed \in BOOLEAN :
          /\ exc' = [exc EXCEPT ![Sync] = failed]
          /\ faulty' = (faulty \/ (traced /\ failed))
    /\ Goto(Sync, "quiet")
    /\ UNCHANGED <<lock, sessionVars, queueVars, reqVars, traced, holding,
                   order, lastPut, ack, got, http>>

\* finally: self.client.lock.release() after the sleep.
SyncRelease ==
    /\ wait_and_release(Sync, "quiet", "wait")
    /\ exc' = [exc EXCEPT ![Sync] = FALSE]
    /\ UNCHANGED <<inflight, sessionVars, queueVars, timer, sinceWrite,
                   reqVars, obsVars>>

\* Mutant: the loop does not look at the result of the wait.
SyncWaitStop_ignored ==
    /\ pc[Sync] = "wait"
    /\ sync_time_event
    /\ Goto(Sync, "acquire")
    /\ UNCHANGED <<exc, lock, inflight, sessionVars, queueVars, timer,
                   sinceWrite, reqVars, obsVars>>

\* self.sync_time_event.wait(timeout=update_interval) returns True: break.
SyncWaitStop ==
    /\ pc[Sync] = "wait"
    /\ sync_time_event
    /\ Goto(Sync, "done")
    /\ UNCHANGED <<exc, lock, inflight, sessionVars, queueVars, timer,
                   sinceWrite, reqVars, obsVars>>

\* The wait times out with the event not set: the next round.
SyncWaitTimeout ==
    /\ pc[Sync] = "wait"
    /\ ~sync_time_event
    /\ Goto(Sync, "acquire")
    /\ UNCHANGED <<exc, lock, inflight, sessionVars, queueVars, timer,
                   sinceWrite, reqVars, obsVars>>

(***************************************************************************)
(* GrowattInverter.write_registers: the drain loop                         *)
(***************************************************************************)
\* Mutant: a key already in the dict keeps its first value.
DictSet_keep_first(d, k, v) ==
    IF \E i \in DOMAIN d : d[i][1] = k THEN d ELSE Append(d, <<k, v>>)

\* requested[k] = v on a dict kept in insertion order.
DictSet(d, k, v) ==
    IF \E i \in DOMAIN d : d[i][1] = k
    THEN [i \in DOMAIN d |-> IF d[i][1] = k THEN <<k, v>> ELSE d[i]]
    ELSE Append(d, <<k, v>>)

\* for i in range(len(values)): requested[start + i] = values[i]
RECURSIVE DictSetAll(_, _, _, _)
DictSetAll(d, start, values, i) ==
    IF i > Len(values) THEN d
    ELSE DictSetAll(DictSet(d, start + i - 1, values[i]), start, values, i + 1)

\* Where the for loop over requested.items() goes after item i.
AfterItem(d, i) == IF i + 1 > Len(d) THEN "wait" ELSE "write_acq"

\* Mutant: requested is not emptied between the rounds, so every item,
\* failed or not, is written again in the next round.
LocalsAfterItem_carried(i) ==
    IF i + 1 > Len(requested)
    THEN /\ ri' = 1
         /\ UNCHANGED <<requested, batch, issued>>
    ELSE /\ ri' = i + 1
         /\ UNCHANGED <<requested, batch, issued>>

\* The loop's locals after item i: once the for loop is over they are dead
\* until the next round assigns requested = {}, and are dropped here.
LocalsAfterItem(i) ==
    IF i + 1 > Len(requested)
    THEN /\ requested' = <<>>
         /\ ri' = 1
         /\ batch' = <<>>
         /\ issued' = <<>>
    ELSE /\ ri' = i + 1
         /\ UNCHANGED <<requested, batch, issued>>

\* self.write_event.wait(timeout=update_interval) returns True: the loop ends.
DrainWaitStop ==
    /\ pc[Drain] = "wait"
    /\ write_event
    /\ Goto(Drain, "done")
    /\ UNCHANGED <<exc, lock, inflight, sessionVars, queueVars, timer,
                   sinceWrite, reqVars, obsVars>>

\* The wait times out with the event not set: requested = {}.
DrainWaitTimeout ==
    /\ pc[Drain] = "wait"
    /\ ~write_event
    /\ Goto(Drain, "drain")
    /\ UNCHANGED <<exc, lock, inflight, sessionVars, queueVars, timer,
                   sinceWrite, reqVars, obsVars>>

\* Mutant: the queue hands out its newest entry first.
DrainGet_lifo ==
    /\ pc[Drain] = "drain"
    /\ write_queue # <<>>
    /\ LET e == write_queue[Len(write_queue)]
       IN  /\ requested' = DictSetAll(requested, e[1], e[2], 1)
           /\ batch' = Append(batch, e)
    /\ write_queue' = SubSeq(write_queue, 1, Len(write_queue) - 1)
    /\ UNCHANGED <<pc, exc, lock, inflight, sessionVars, ri, issued, timer,
                   sinceWrite, reqVars, obsVars>>

\* while not self.write_queue.empty(): get_nowait() and merge by offset.
DrainGet ==
    /\ pc[Drain] = "drain"
    /\ write_queue # <<>>
    /\ LET e == Head(write_queue)
       IN  /\ requested' = DictSetAll(requested, e[1], e[2], 1)
           /\ batch' = Append(batch, e)
    /\ write_queue' = Tail(write_queue)
    /\ UNCHANGED <<pc, exc, lock, inflight, sessionVars, ri, issued, timer,
                   sinceWrite, reqVars, obsVars>>

\* The queue is empty: start the for loop over requested.items().
DrainLoop ==
    /\ pc[Drain] = "drain"
    /\ write_queue = <<>>
    /\ Goto(Drain, AfterItem(requested, 0))
    /\ LocalsAfterItem(0)
    /\ UNCHANGED <<exc, lock, inflight, sessionVars, write_queue, timer,
                   sinceWrite, reqVars, obsVars>>

\* self.client.write_registers(start, values): the wrapper takes the lock
\* and the write goes out.
DrainWriteCall ==
    /\ wrapper_call(Drain, "write_acq", "write_call")
    /\ issued' = Append(issued, requested[ri])
    /\ UNCHANGED <<exc, sessionVars, write_queue, requested, ri, batch, timer,
                   sinceWrite, reqVars, obsVars>>

\* The write returns or raises; a write that went through is in the device.
DrainWriteReturn ==
    /\ \E failed \in BOOLEAN :
          /\ wrapper_return(Drain, "write_call", "write_fin", failed, TRUE)
          /\ faulty' = (faulty \/ (traced /\ failed))
          /\ holding' = IF traced /\ ~failed /\ requested[ri][1] = BuzzerStart
                        THEN requested[ri][2] ELSE holding
    /\ UNCHANGED <<lock, sessionVars, queueVars, timer, reqVars, traced,
                   order, lastPut, ack, got, http>>

\* Mutant: no try/except in the for loop, an exception of the write ends
\* the thread.
DrainWriteDefer_unhandled ==
    /\ wrapper_defer(Drain, "write_fin",
                     IF exc[Drain] THEN "done" ELSE AfterItem(requested, ri))
    /\ exc' = [exc EXCEPT ![Drain] = FALSE]
    /\ LocalsAfterItem(ri)
    /\ UNCHANGED <<inflight, sessionVars, write_queue, sinceWrite, reqVars, obsVars>>

\* The wrapper's finally starts the releasing thread; write_registers is
\* back in the loop, which logs an exception and takes the next item.
DrainWriteDefer ==
    /\ wrapper_defer(Drain, "write_fin", AfterItem(requested, ri))
    /\ exc' = [exc EXCEPT ![Drain] = FALSE]
    /\ LocalsAfterItem(ri)
    /\ UNCHANGED <<inflight, sessionVars, write_queue, sinceWrite, reqVars, obsVars>>

\* The releasing thread cannot be started: the loop's own thread sleeps.
DrainWriteInline ==
    /\ wrapper_inline(Drain, "write_fin", "write_inline")
    /\ UNCHANGED <<exc, lock, inflight, sessionVars, queueVars, sinceWrite,
                   reqVars, obsVars>>

DrainInlineRelease ==
    /\ wait_and_release(Drain, "write_inline", AfterItem(requested, ri))
    /\ exc' = [exc EXCEPT ![Drain] = FALSE]
    /\ LocalsAfterItem(ri)
    /\ UNCHANGED <<inflight, sessionVars, write_queue, timer, sinceWrite,
                   reqVars, obsVars>>

\* The thread started by the wrapper: wait_and_release.
DeferRelease ==
    /\ wait_and_release(Defer, "sleep", "idle")
    /\ UNCHANGED <<exc, inflight, sessionVars, queueVars, timer, sinceWrite,
                   reqVars, obsVars>>

(***************************************************************************)
(* HTTP handler threads: read_status, read_config, write_config            *)
(***************************************************************************)
\* GET /status: read_status, one guarded read_input_registers(0, 91).
HttpGetStatus(h) ==
    /\ pc[h] = "idle"
    /\ pc[Main] = "serve"
    /\ budget > 0
    /\ budget' = budget - 1
    /\ Goto(h, "rs_acq")
    /\ order' = Arrive(h)
    /\ UNCHANGED <<exc, lock, inflight, sessionVars, queueVars, timer,
                   sinceWrite, req, traced, holding, lastPut, ack, got,
                   faulty, http>>

\* GET /config: read_config, two guarded read_holding_registers calls.
HttpGetConfig(h) ==
    /\ pc[h] = "idle"
    /\ pc[Main] = "serve"
    /\ budget > 0
    /\ budget' = budget - 1
    /\ Goto(h, "rc1_acq")
    /\ order' = Arrive(h)
    /\ got' = IF traced THEN [got EXCEPT ![h] = [NoGot EXCEPT !.after = ack]]
                        ELSE got
    /\ UNCHANGED <<exc, lock, inflight, sessionVars, queueVars, timer,
                   sinceWrite, req, traced, holding, lastPut, ack, faulty,
                   http>>

ReadCall(h) ==
    /\ \/ wrapper_call(h, "rs_acq", "rs_call")
       \/ wrapper_call(h, "rc1_acq", "rc1_call")
       \/ wrapper_call(h, "rc2_acq", "rc2_call")
    /\ order' = Leave(h)
    /\ UNCHANGED <<exc, sessionVars, queueVars, timer, sinceWrite, reqVars,
                   traced, holding, lastPut, ack, got, faulty, http>>

\* A word for register o is queued or in the drain loop's dict and not yet
\* written.
Pending(o) ==
    \/ \E i \in DOMAIN write_queue : Covers(write_queue[i], o)
    \/ \E i \in DOMAIN requested :
          /\ requested[i][1] = o
          /\ \/ pc[Drain] = "drain"
             \/ i > ri
             \/ i = ri /\ pc[Drain] \in {"write_acq", "write_call"}

\* What read_config makes of the registers of its first read (0-100): the
\* BuzzerEnable it will report.
Seen(h) ==
    [got[h] EXCEPT
        !.value = read_bool(combine_registers(<<holding>>, 0, 1, FALSE)).n,
        !.settled = IF ~faulty /\ ~Pending(BuzzerStart) THEN lastPut ELSE -1]

ReadReturn(h) ==
    /\ \E failed \in BOOLEAN :
          /\ \/ wrapper_return(h, "rs_call", "rs_fin", failed, FALSE)
             \/ wrapper_return(h, "rc1_call", "rc1_fin", failed, FALSE)
             \/ wrapper_return(h, "rc2_call", "rc2_fin", failed, FALSE)
          /\ faulty' = (faulty \/ (traced /\ failed))
          /\ got' = IF traced /\ ~failed /\ pc[h] = "rc1_call"
                    THEN [got EXCEPT ![h] = Seen(h)] ELSE got
    /\ UNCHANGED <<lock, sessionVars, queueVars, timer, reqVars, traced,
                   holding, order, lastPut, ack, http>>

\* The wrapper's finally; read_config goes on to its second read unless the
\* first raised.
ReadRelease(h) ==
    /\ \/ wrapper_release(h, "rs_fin", "reply")
       \/ wrapper_release(h, "rc1_fin", IF exc[h] THEN "reply" ELSE "rc2_acq")
       \/ wrapper_release(h, "rc2_fin", "reply")
    /\ UNCHANGED <<exc, inflight, sessionVars, queueVars, timer, sinceWrite,
                   reqVars, obsVars>>

\* Mutant: write_config writes through the guarded client itself, so it
\* has to wait for the lock.
write_config_guarded(h, key, value) ==
    LET out == write_config_result(key, value)
    IN  /\ lock = Free
        /\ write_queue' = IF out.exc = ""
                          THEN Append(write_queue, <<out.start, out.values>>)
                          ELSE write_queue
        /\ req' = [req EXCEPT ![h] = [key |-> key, value |-> value, out |-> out,
                                      busy |-> lock # Free]]
        /\ budget' = budget - 1
        /\ UNCHANGED <<lock, inflight, sessionVars, requested, ri, batch,
                       issued, timer, sinceWrite, traced, holding, order,
                       lastPut, ack, got, faulty>>

\* Mutant: the new entry takes the place of what was queued.
write_config_overwrite(h, key, value) ==
    LET out == write_config_result(key, value)
    IN  /\ write_queue' = IF out.exc = ""
                          THEN <<(<<out.start, out.values>>)>>
                          ELSE write_queue
        /\ req' = [req EXCEPT ![h] = [key |-> key, value |-> value, out |-> out,
                                      busy |-> lock # Free]]
        /\ budget' = budget - 1
        /\ UNCHANGED <<lock, inflight, sessionVars, requested, ri, batch,
                       issued, timer, sinceWrite, traced, holding, order,
                       lastPut, ack, got, faulty>>

\* GrowattInverter.write_config(key, value): everything it does to the session.
write_config(h, key, value) ==
    LET out == write_config_result(key, value)
    IN  /\ write_queue' = IF out.exc = ""
                          THEN Append(write_queue, <<out.start, out.values>>)
                          ELSE write_queue
        /\ req' = [req EXCEPT ![h] = [key |-> key, value |-> value, out |-> out,
                                      busy |-> lock # Free]]
        /\ budget' = budget - 1
        /\ lastPut' = IF traced /\ out.exc = "" /\ out.start = BuzzerStart
                      THEN out.values[1] ELSE lastPut
        /\ UNCHANGED <<lock, inflight, sessionVars, requested, ri, batch,
                       issued, timer, sinceWrite, traced, holding, order,
                       ack, got, faulty>>

\* PUT /config?key=..&value=..: do_PUT calls write_config.
HttpPut(h) ==
    /\ pc[h] = "idle"
    /\ pc[Main] = "serve"
    /\ budget > 0
    /\ \E key \in ReqKeys, value \in ReqValues :
          /\ write_config(h, key, value)
          /\ exc' = [exc EXCEPT ![h] = write_config_result(key, value).exc # ""]
    /\ Goto(h, "reply")
    /\ UNCHANGED http

\* The handler answers (200, or the error of the exception) and is done.
HttpReply(h) ==
    /\ pc[h] = "reply"
    /\ exc' = [exc EXCEPT ![h] = FALSE]
    /\ req' = [req EXCEPT ![h] = NoReq]
    /\ Goto(h, "idle")
    /\ ack' = IF /\ traced /\ req[h] # NoReq /\ req[h].out.exc = ""
                 /\ req[h].out.start = BuzzerStart
              THEN req[h].out.values[1] ELSE ack
    /\ got' = [got EXCEPT ![h] = NoGot]
    /\ UNCHANGED <<lock, inflight, sessionVars, queueVars, timer, sinceWrite,
                   budget, traced, holding, order, lastPut, faulty, http>>

(***************************************************************************)
(* Time                                                                    *)
(***************************************************************************)
\* One second passes.
Tick ==
    /\ sinceWrite < MIN_WAIT_TIME_BETWEEN_CMDS \/ \E t \in Sleepers : timer[t] > 0
    /\ sinceWrite' = IF sinceWrite < MIN_WAIT_TIME_BETWEEN_CMDS
                     THEN sinceWrite + 1 ELSE sinceWrite
    /\ timer' = [t \in Sleepers |-> IF timer[t] > 0 THEN timer[t] - 1 ELSE 0]
    /\ UNCHANGED <<pc, exc, lock, inflight, sessionVars, queueVars, reqVars, obsVars>>

MainStep ==
    \/ MainConnectCall \/ MainConnectReturn \/ MainConnectRelease
    \/ MainStartSync \/ MainStartWrite
    \/ MainCloseCall \/ MainCloseReturn \/ MainCloseRelease
    \/ MainSetSyncEvent \/ MainJoinSync \/ MainSetWriteEvent \/ MainJoinWrite

SyncStep ==
    \/ SyncAcquire \/ SyncWriteBegin \/ SyncWriteEnd \/ SyncRelease
    \/ SyncWaitStop \/ SyncWaitTimeout

DrainStep ==
    \/ DrainWaitStop \/ DrainWaitTimeout \/ DrainGet \/ DrainLoop
    \/ DrainWriteCall \/ DrainWriteReturn \/ DrainWriteDefer
    \/ DrainWriteInline \/ DrainInlineRelease

HandlerStep(h) ==
    \/ ReadCall(h) \/ ReadReturn(h) \/ ReadRelease(h) \/ HttpReply(h)

Next ==
    \/ MainStep
    \/ MainInterrupt
    \/ SyncStep
    \/ DrainStep
    \/ DeferRelease
    \/ \E h \in Handlers :
          \/ HttpGetStatus(h) \/ HttpGetConfig(h) \/ HttpPut(h)
          \/ HandlerStep(h)
    \/ Tick

Spec == Init /\ [][Next]_vars

(***************************************************************************)
(* write_config on its own: the session object takes calls with keys and   *)
(* values of every kind, no thread running.                                *)
(***************************************************************************)
CodecKeys ==
    {"UtiOutStart", "BuzzerEnable", "OutputConfig", "OverTempRestart",
     "BulkChargeVolt", "SerialNumber", "FWVersion", "OnOff", "NoSuchKey"}

CodecValues ==
    { PyStr(<<116, 114, 117, 101>>),          \* "true"
      PyStr(<<83, 66, 85>>),                  \* "SBU"
      PyStr(<<49, 50>>),                      \* "12"
      PyStr(<<65, 66, 67, 68, 69, 70, 71, 72, 73, 74, 75>>),  \* "ABCDEFGHIJK"
      PyStr(<<>>),                            \* ""
      PyInt(0), PyInt(1), PyInt(-1), PyInt(6554), PyInt(65535), PyInt(65536),
      PyFloat(15), PyFloat(575) }             \* 1.5, 57.5

CodecCall ==
    /\ budget > 0
    /\ \E h \in Handlers, key \in CodecKeys, value \in CodecValues :
          write_config(h, key, value)
    /\ UNCHANGED <<pc, exc, http>>

CodecSpec == Init /\ [][CodecCall]_vars

(***************************************************************************)
(* Scheduling.  Every thread that can take a step eventually takes one,    *)
(* every pymodbus call returns, sleeps end, and a thread blocked in        *)
(* lock.acquire() gets the lock if it is free again and again (the loops   *)
(* sleep between their rounds).  HTTP requests and the interrupt that      *)
(* ends serve_forever are free to never come.                              *)
(***************************************************************************)
MainAcquire == MainConnectCall \/ MainCloseCall

MainProgress ==
    \/ MainConnectReturn \/ MainConnectRelease \/ MainStartSync
    \/ MainStartWrite \/ MainCloseReturn \/ MainCloseRelease
    \/ MainSetSyncEvent \/ MainJoinSync \/ MainSetWriteEvent \/ MainJoinWrite

SyncProgress ==
    \/ SyncWriteBegin \/ SyncWriteEnd \/ SyncRelease
    \/ SyncWaitStop \/ SyncWaitTimeout

DrainProgress ==
    \/ DrainWaitStop \/ DrainWaitTimeout \/ DrainGet \/ DrainLoop
    \/ DrainWriteReturn \/ DrainWriteDefer \/ DrainWriteInline
    \/ DrainInlineRelease

HandlerProgress(h) == ReadReturn(h) \/ ReadRelease(h) \/ HttpReply(h)

Fairness ==
    /\ WF_vars(Tick)
    /\ WF_vars(MainProgress) /\ SF_vars(MainAcquire)
    /\ WF_vars(SyncProgress) /\ SF_vars(SyncAcquire)
    /\ WF_vars(DrainProgress) /\ SF_vars(DrainWriteCall)
    /\ WF_vars(DeferRelease)
    /\ \A h \in Handlers : WF_vars(HandlerProgress(h)) /\ SF_vars(ReadCall(h))

FairInit == InitWith(MaxFairRequests) /\ ObsInit(FALSE)

FairSpec == FairInit /\ [][Next]_vars /\ Fairness

\* The same program, with the device register and the histories followed.
TraceInit == InitWith(MaxRequests) /\ ObsInit(TRUE)

TraceSpec == TraceInit /\ [][Next]_vars

(***************************************************************************)
(* The HTTP layer on its own: the server is up and each behaviour serves   *)
(* one request, from its arrival to the end of its handler.                *)
(***************************************************************************)
\* The exchange of request r on inverter dev, of which res came, is kept in
\* http with the queue as it was before; a put of write_config is made.
HttpServed(h, r, dev, res) ==
    /\ http' = [served |-> TRUE, h |-> h, r |-> r, dev |-> dev,
                res |-> res, before |-> write_queue]
    /\ IF res.put.called
       THEN write_config(h, res.put.key, res.put.value)
       ELSE /\ budget' = budget - 1
            /\ UNCHANGED <<lock, inflight, sessionVars, queueVars,
                           timer, sinceWrite, req, traced, holding,
                           order, lastPut, ack, got, faulty>>

\* One request is handled by thread h; the exchange is kept in http, with
\* the queue as it was before.
HttpServe(h) ==
    /\ pc[h] = "idle"
    /\ pc[Main] = "serve"
    /\ budget > 0
    /\ \E r \in Requests, dev \in Devices :
          HttpServed(h, r, dev, handle_one_request(r, dev))
    /\ UNCHANGED <<pc, exc>>

\* main has connected and started both loops, serve_forever is running and
\* no handler is at work.
Serving ==
    /\ pc = [t \in Threads |->
               CASE t = Main -> "serve"
                 [] t = Sync -> "acquire"
                 [] t = Drain -> "wait"
                 [] OTHER -> "idle"]
    /\ exc = [t \in Threads |-> FALSE]
    /\ lock = Free
    /\ inflight = {}
    /\ port = "open"
    /\ sync_time_event = FALSE
    /\ write_event = FALSE
    /\ requested = <<>>
    /\ ri = 1
    /\ timer = [t \in Sleepers |-> 0]
    /\ sinceWrite = MIN_WAIT_TIME_BETWEEN_CMDS
    /\ batch = <<>>
    /\ issued = <<>>
    /\ req = [h \in Handlers |-> NoReq]

\* The queue is empty or holds a write of BuzzerEnable not yet drained.
HttpInit ==
    /\ Serving
    /\ write_queue \in {<<>>, <<(<<BuzzerStart, <<1>>>>)>>}
    /\ budget = MaxFairRequests
    /\ ObsInit(FALSE)

HttpNext == \E h \in Handlers : HttpServe(h)

HttpSpec == HttpInit /\ [][HttpNext]_vars


(***************************************************************************)
(* Properties                                                              *)
(***************************************************************************)
\* A transaction starts in this step.
TransactionStarts == \E t \in Threads : t \in inflight' /\ t \notin inflight

\* Handler h serves a PUT in this step: do_PUT runs write_config.
PutStep(h) == pc[h] = "idle" /\ pc'[h] = "reply"

\* C1: at most one pymodbus call is in flight at any time, and the thread
\* making it holds the guard lock.
C1_MutualExclusion ==
    /\ Cardinality(inflight) <= 1
    /\ \A t \in inflight : lock = t

\* A handler's read is in flight while the drain loop and the clock sync
\* both wait for the lock.
C1_Witness ==
    /\ \E h \in Handlers : inflight = {h}
    /\ pc[Drain] = "write_acq"
    /\ pc[Sync] = "acquire"

\* C2: after a write transaction ends (drain write or clock sync, passed or
\* failed) no transaction starts before MIN_WAIT_TIME_BETWEEN_CMDS seconds
\* have gone by, and the lock is held all that time.
C2_QuietTime ==
    /\ [][TransactionStarts => sinceWrite >= MIN_WAIT_TIME_BETWEEN_CMDS]_vars
    /\ [](sinceWrite < MIN_WAIT_TIME_BETWEEN_CMDS => lock # Free)

\* A write has just ended; the releasing thread holds the lock while the
\* drain loop's next write and a handler's read are waiting for it.
C2_Witness ==
    /\ sinceWrite = 0
    /\ lock = Defer
    /\ pc[Drain] = "write_acq"
    /\ \E h \in Handlers : pc[h] = "rs_acq"

\* C3 as claimed: the caller of the guarded write_registers never sleeps the
\* quiet time itself.
C3_CallerNeverWaits == pc[Drain] # "write_inline"

\* C3 amended: when the releasing thread is started, write_registers is back
\* with its caller at once, the whole delay still ahead and left to that
\* thread; the caller sleeps the delay itself only on the path where the
\* thread could not be started, and releases only after it; either way no
\* transaction starts before the delay is over.
C3_DeferredRelease ==
    /\ [][(pc[Drain] = "write_fin" /\ pc'[Drain] \notin {"write_fin", "write_inline"})
            => /\ lock' = Defer
               /\ pc'[Defer] = "sleep"
               /\ timer'[Defer] = MIN_WAIT_TIME_BETWEEN_CMDS
               /\ timer'[Drain] = 0]_vars
    /\ [][(pc[Drain] = "write_inline" /\ pc'[Drain] # "write_inline")
            => timer[Drain] = 0 /\ lock = Drain /\ lock' = Free]_vars
    /\ [][TransactionStarts => sinceWrite >= MIN_WAIT_TIME_BETWEEN_CMDS]_vars
    /\ [](lock = Defer /\ timer[Defer] > 0 => inflight = {})

\* The drain loop is back in its wait while the releasing thread still has
\* the whole delay to sleep.
C3_Witness ==
    /\ pc[Drain] = "wait"
    /\ lock = Defer
    /\ timer[Defer] = MIN_WAIT_TIME_BETWEEN_CMDS
    /\ sinceWrite = 0

\* C4: a guarded read or write whose pymodbus call raised still gives the
\* lock up, so the lock does not stay held.
C4_FailureReleases ==
    /\ (\E t \in Threads : exc[t] /\ lock = t) ~> (lock = Free)
    /\ [](\A h \in Handlers : pc[h] = "reply" => lock # h)
    /\ [](pc[Drain] \in {"wait", "drain", "write_acq", "done"} => lock # Drain)

\* A handler's read has failed (it is about to answer with the error) and a
\* later transaction of another thread is in flight.
C4_Witness ==
    \E h \in Handlers :
        /\ pc[h] = "reply" /\ exc[h] /\ req[h] = NoReq
        /\ inflight # {} /\ lock \notin {Free, h}

\* C5: write_config leaves the lock, the transport and every other thread
\* alone, at most appends one entry to the queue, and can always run at
\* once, whoever holds the lock.
C5_WriteConfigOffChannel ==
    /\ [][\A h \in Handlers : PutStep(h) =>
            /\ lock' = lock /\ inflight' = inflight /\ port' = port
            /\ timer' = timer /\ sinceWrite' = sinceWrite
            /\ requested' = requested /\ ri' = ri
            /\ \A t \in Threads \ {h} : pc'[t] = pc[t]
            /\ \/ write_queue' = write_queue
               \/ /\ Len(write_queue') = Len(write_queue) + 1
                  /\ SubSeq(write_queue', 1, Len(write_queue)) = write_queue]_vars
    /\ [](\A h \in Handlers :
            (pc[h] = "idle" /\ pc[Main] = "serve" /\ budget > 0)
                => ENABLED HttpPut(h))

\* A PUT was accepted and queued while the releasing thread held the lock
\* for the quiet time.
C5_Witness ==
    \E h \in Handlers :
        /\ pc[h] = "reply" /\ req[h].busy /\ req[h].out.exc = ""
        /\ req[h].key = "BuzzerEnable"
        /\ lock = Defer /\ timer[Defer] > 0
        /\ write_queue # <<>>

NotWriteableKey(k) ==
    k \in DOMAIN HoldingAndWriteRegisters /\ HoldingAndWriteRegisters[k].write = "None"

WriteableKey(k) ==
    k \in DOMAIN HoldingAndWriteRegisters /\ HoldingAndWriteRegisters[k].write # "None"

\* The register offsets of the writeable catalog entries.
WriteableOffsets ==
    UNION { LET e == HoldingAndWriteRegisters[k]
            IN  e.start..(e.start + e.length - 1) :
            k \in {x \in DOMAIN HoldingAndWriteRegisters : WriteableKey(x)} }

\* C6: write_config on a key outside the catalog raises KeyError("Invalid
\* key"), on a catalog key without write pre-process ValueError("Register is
\* not writeable"); the queue stays as it was, and neither the queue nor the
\* drain loop's writes ever name a register that is not writeable.
C6_RejectedWrites ==
    /\ [][\A h \in Handlers : PutStep(h) =>
            LET r == req'[h]
            IN  /\ r.key \notin DOMAIN HoldingAndWriteRegisters =>
                      /\ r.out.exc = "KeyError" /\ r.out.msg = "Invalid key"
                      /\ write_queue' = write_queue
                /\ NotWriteableKey(r.key) =>
                      /\ r.out.exc = "ValueError"
                      /\ r.out.msg = "Register is not writeable"
                      /\ write_queue' = write_queue]_vars
    /\ [](\A i \in DOMAIN write_queue :
            \E k \in DOMAIN HoldingAndWriteRegisters :
                /\ WriteableKey(k)
                /\ write_queue[i][1] = HoldingAndWriteRegisters[k].start
                /\ Len(write_queue[i][2]) = HoldingAndWriteRegisters[k].length)
    /\ [](\A i \in DOMAIN issued : issued[i][1] \in WriteableOffsets)

\* One handler was refused a write of FWVersion and the other a write of an
\* unknown key; nothing was queued.
C6_Witness ==
    /\ \E h \in Handlers :
          /\ pc[h] = "reply" /\ req[h].key = "FWVersion"
          /\ req[h].out.msg = "Register is not writeable"
    /\ \E h \in Handlers :
          /\ pc[h] = "reply" /\ req[h].key = "NoSuchKey"
          /\ req[h].out.exc = "KeyError"
    /\ write_queue = <<>>
    /\ pc[Drain] = "wait"

\* C7 as claimed: on a writeable key write_config either queues length words
\* or raises ValueError for an invalid value; nothing else comes out of it.
C7_OnlyInvalidValue ==
    \A h \in Handlers :
        (req[h] # NoReq /\ WriteableKey(req[h].key)) =>
            \/ /\ req[h].out.exc = ""
               /\ Len(req[h].out.values) = HoldingAndWriteRegisters[req[h].key].length
            \/ /\ req[h].out.exc = "ValueError"
               /\ req[h].out.msg \in {"Invalid value", "Invalid value length"}

\* The drain loop's for loop is at its last item and that write has ended.
CycleDone ==
    /\ pc[Drain] \in {"write_fin", "write_inline"}
    /\ ri = Len(requested)

BatchOffsets ==
    UNION {batch[i][1]..(batch[i][1] + Len(batch[i][2]) - 1) : i \in DOMAIN batch}

\* The word of offset o in the entry queued last among those that cover o.
LastWord(o) ==
    LET I == {i \in DOMAIN batch : Covers(batch[i], o)}
        m == CHOOSE i \in I : \A j \in I : j <= i
    IN  batch[m][2][o - batch[m][1] + 1]

SameKeyTwice ==
    CycleDone /\ Len(batch) = 2 /\ batch[1][1] = batch[2][1]

\* C8 as claimed: two writes of one key taken in one drain cycle end in
\* exactly one transaction, with the second value.
C8_OneTransactionPerKey ==
    SameKeyTwice => Len(issued) = 1 /\ issued[1][2] = batch[2][2][1]

\* C8 amended: a drain cycle writes every offset its batch covers exactly
\* once, with the word of the entry queued last for that offset; two writes
\* of one key end in one transaction per register word of the key (one for
\* a one-word key), each with the word of the second value.
C8_Coalescing ==
    /\ \A i, j \in DOMAIN issued : i # j => issued[i][1] # issued[j][1]
    /\ \A i \in DOMAIN issued :
          /\ issued[i][1] \in BatchOffsets
          /\ issued[i][2] = LastWord(issued[i][1])
    /\ CycleDone => {issued[i][1] : i \in DOMAIN issued} = BatchOffsets
    /\ SameKeyTwice =>
          /\ Len(issued) = Len(batch[2][2])
          /\ \A i \in DOMAIN issued :
                issued[i] = <<batch[2][1] + i - 1, batch[2][2][i]>>

\* Two different values of one key were taken in one cycle and the cycle's
\* last write has ended.
C8_Witness == SameKeyTwice /\ batch[1][2] # batch[2][2]

\* C9 as claimed: the transport is closed only once both loops have ended,
\* and no loop has a transaction in flight on a closed transport.
C9_CloseAfterLoops ==
    /\ port = "closed" => pc[Sync] = "done" /\ pc[Drain] = "done"
    /\ \A t \in {Sync, Drain} : t \in inflight => port # "closed"

\* C10: once close() has set a loop's event the loop ends, and close()
\* returns; a loop ends only from its wait between two rounds, with no
\* transaction of its own in flight and not holding the lock, and a
\* transaction it began is always brought to its end.
C10_CooperativeStop ==
    /\ sync_time_event ~> (pc[Sync] = "done")
    /\ write_event ~> (pc[Drain] = "done" /\ pc[Main] = "closed")
    /\ (Sync \in inflight) ~> (Sync \notin inflight)
    /\ (Drain \in inflight) ~> (Drain \notin inflight)
    /\ [][\A t \in {Sync, Drain} :
            (pc[t] # "done" /\ pc'[t] = "done")
                => pc[t] = "wait" /\ lock # t /\ t \notin inflight]_vars
    /\ [](\A t \in {Sync, Drain} : pc[t] = "done" => lock # t /\ t \notin inflight)

\* Both loops have ended and close() has returned, the drain loop having
\* left right after its last write (the releasing thread still sleeps).
C10_Witness ==
    /\ pc[Main] = "closed"
    /\ pc[Sync] = "done"
    /\ pc[Drain] = "done"
    /\ lock = Defer

\* The drain loop leaves the wrapper of a guarded write in this step.
DrainLeavesWrite ==
    /\ pc[Drain] \in {"write_fin", "write_inline"}
    /\ pc'[Drain] \notin {"write_fin", "write_inline"}

\* C11: when the guarded write of one offset raises, the drain loop goes on
\* to the next offset of the batch and attempts it, comes back to its wait
\* for the next interval, and ends only on the stop signal; the exception
\* reaches no HTTP handler.
C11_DrainFailureIsolation ==
    /\ [][(exc[Drain] /\ DrainLeavesWrite) =>
            /\ pc'[Drain] = IF ri < Len(requested) THEN "write_acq" ELSE "wait"
            /\ ~exc'[Drain]
            /\ ri < Len(requested) => ri' = ri + 1 /\ requested' = requested]_vars
    /\ [][pc[Drain] = "write_acq" =>
            \/ pc'[Drain] = "write_acq" /\ ri' = ri /\ requested' = requested
            \/ /\ Drain \in inflight' /\ ri' = ri
               /\ issued' = Append(issued, requested[ri])]_vars
    /\ (pc[Drain] = "write_acq") ~> (Drain \in inflight)
    /\ exc[Drain] ~> (pc[Drain] = "wait")
    /\ [][pc[Drain] # "done" /\ pc'[Drain] = "done" => write_event]_vars
    /\ [][exc'[Drain] # exc[Drain] =>
            \A h \in Handlers : exc'[h] = exc[h] /\ pc'[h] = pc[h]]_vars
    /\ [](\A h \in Handlers :
            (pc[h] = "reply" /\ req[h] # NoReq /\ req[h].out.exc = "") => ~exc[h])

\* The write of the first of several offsets has raised.
C11_Witness ==
    /\ exc[Drain]
    /\ pc[Drain] = "write_fin"
    /\ ri = 1
    /\ Len(requested) > 1

\* C12: a clock-sync write that raises is not fatal: the loop still sleeps
\* the quiet time, releases the lock, goes to its wait, and from there
\* writes again unless the stop signal comes first; it ends only on that
\* signal.
C12_SyncFailureNotFatal ==
    /\ [](exc[Sync] => pc[Sync] = "quiet" /\ lock = Sync)
    /\ [][(exc[Sync] /\ lock' # lock) =>
            /\ timer[Sync] = 0
            /\ sinceWrite >= MIN_WAIT_TIME_BETWEEN_CMDS
            /\ lock' = Free
            /\ pc'[Sync] = "wait"]_vars
    /\ exc[Sync] ~> (pc[Sync] = "wait" /\ lock # Sync)
    /\ (pc[Sync] = "wait" /\ ~sync_time_event)
          ~> (Sync \in inflight \/ sync_time_event)
    /\ [][pc[Sync] # "done" /\ pc'[Sync] = "done" =>
            pc[Sync] = "wait" /\ sync_time_event]_vars

\* The sync write has raised; the loop holds the lock for the quiet time
\* and no stop signal is set.
C12_Witness ==
    /\ exc[Sync]
    /\ pc[Sync] = "quiet"
    /\ timer[Sync] = MIN_WAIT_TIME_BETWEEN_CMDS
    /\ ~sync_time_event

\* C13 as claimed: every entry accepted into the queue is taken out of it
\* by the drain loop, whatever else happens, shutdown included.
C13_EventuallyConsumed ==
    (write_queue # <<>>) ~> (write_queue = <<>>)

RECURSIVE SumWords(_, _)
\* The number of register words in the first n entries of a batch.
SumWords(b, n) == IF n = 0 THEN 0 ELSE SumWords(b, n - 1) + Len(b[n][2])

\* The entries of the batch cover register ranges that do not overlap.
DisjointBatch ==
    \A i, j \in DOMAIN batch :
        i # j => \A o \in batch[i][1]..(batch[i][1] + Len(batch[i][2]) - 1) :
                    ~Covers(batch[j], o)

\* C14 as claimed: the writes of N disjoint keys taken in one drain cycle
\* end in N transactions.
C14_OneTransactionPerEntry ==
    (CycleDone /\ Len(batch) = 2 /\ DisjointBatch) => Len(issued) = Len(batch)

\* C14 amended: every accepted write_config appends exactly its entry to
\* the queue, the queue otherwise changes only by the drain loop taking its
\* head into the batch, a cycle over disjoint keys ends in one transaction
\* per register word of the batch, and no transaction starts before the
\* quiet time after a write is over.
C14_ConcurrentWrites ==
    /\ [][\A h \in Handlers : (PutStep(h) /\ req'[h].out.exc = "") =>
            write_queue' = Append(write_queue,
                                  <<req'[h].out.start, req'[h].out.values>>)]_vars
    /\ [][write_queue' # write_queue =>
            \/ \E h \in Handlers : PutStep(h) /\ req'[h].out.exc = ""
            \/ /\ write_queue # <<>>
               /\ write_queue' = Tail(write_queue)
               /\ batch' = Append(batch, Head(write_queue))]_vars
    /\ []((CycleDone /\ DisjointBatch) =>
            Len(issued) = SumWords(batch, Len(batch)))
    /\ [][TransactionStarts =>
            sinceWrite >= MIN_WAIT_TIME_BETWEEN_CMDS /\ lock' \in inflight']_vars

\* The writes of two disjoint keys, made while neither had been taken from
\* the queue, were drained in one cycle whose last write has ended.
C14_Witness ==
    /\ CycleDone
    /\ Len(batch) = 2
    /\ DisjointBatch
    /\ batch[1][1] # batch[2][1]

\* C15: transactions are served first come, first served: a handler takes
\* the guard lock only if no other handler has been blocked in
\* lock.acquire() for longer (order holds the blocked handlers, the one
\* blocked longest first).
C15_FirstComeFirstServed ==
    [][\A h \in Handlers :
          (lock' = h /\ lock # h /\ order # <<>>) => Head(order) = h]_vars

\* C17 as stated: a GET /config that begins after a PUT of BuzzerEnable=true
\* was answered 200, on a channel where no call has failed, reports
\* BuzzerEnable as true.
C17_ReadAfterPut ==
    \A h \in Handlers :
        (/\ pc[h] = "reply" /\ ~exc[h] /\ ~faulty
         /\ got[h].value # -1 /\ got[h].after = 1)
        => got[h].value = 1

\* C17, amended: on a channel where no call has failed, once no word for
\* the register is queued or waiting in the drain loop, the device holds the
\* word of the last accepted write of BuzzerEnable, and a GET /config whose
\* first read is made then reports that value (true after value=true).
C17_ReadYourWrite ==
    /\ (traced /\ ~faulty /\ lastPut # -1 /\ ~Pending(BuzzerStart))
          => holding = lastPut
    /\ \A h \in Handlers :
          (pc[h] = "reply" /\ ~exc[h] /\ got[h].settled # -1)
          => got[h].value = got[h].settled

\* A GET /config begun after the 200 of value=true, read after the drain
\* loop wrote the word, is about to report true.
C17_Witness ==
    \E h \in Handlers :
        /\ pc[h] = "reply" /\ ~exc[h]
        /\ got[h].after = 1 /\ got[h].settled = 1 /\ got[h].value = 1

\* The request carries an Authorization header that validates.
Authenticated(r) ==
    /\ r.auth.has
    /\ validate_basic_auth_header(r.auth.v) = Ret(PyBool(TRUE))

\* The status codes of the responses sent, in order.
Codes(res) == [i \in DOMAIN res.sent |-> res.sent[i].code]

\* C16: a HEAD, GET or PUT request whose Authorization header is absent or
\* does not validate (another scheme, malformed, undecodable, wrong user or
\* password) is answered with one 401 that carries the WWW-Authenticate
\* challenge, makes no Device Session call and leaves the queue as it was;
\* only a request with the right user and password gets any other answer
\* or makes a call.
C16_AuthGate ==
    http.served =>
        /\ ~Authenticated(http.r) =>
              /\ Codes(http.res) = <<401>>
              /\ "WWW-Authenticate" \in http.res.sent[1].headers
              /\ http.res.calls = <<>>
              /\ write_queue = http.before
        /\ (http.res.calls # <<>> \/ \E i \in DOMAIN http.res.sent :
                                        http.res.sent[i].code # 401)
              => Authenticated(http.r)

\* C18: an authenticated GET with _method=PUT is handled as the PUT of the
\* same target, with _method=HEAD it is answered 400, and with any other
\* _method value it is answered 501.
C18_MethodOverride ==
    (/\ http.served /\ http.r.command = "GET" /\ Authenticated(http.r)
     /\ Has(parse_qs(http.r.query), "_method"))
    => LET method == Upper(First(parse_qs(http.r.query), "_method").text)
       IN  CASE method = <<80, 85, 84>> ->
                  http.res = handle_one_request(
                                 [http.r EXCEPT !.command = "PUT"], http.dev)
             [] method = <<72, 69, 65, 68>> -> Codes(http.res) = <<400>>
             [] OTHER -> Codes(http.res) = <<501>>

\* C19: an authenticated PUT /config with key and value is answered 200
\* exactly when one entry was added to the queue, and 400 with the queue as
\* it was when the write is refused (unknown key, key not writeable, value
\* not valid); a PUT /config without key or without value is answered 400
\* with the queue as it was.
C19_PutStatusMapping ==
    (/\ http.served /\ http.r.command = "PUT" /\ http.r.path = "/config"
     /\ Authenticated(http.r))
    => LET qs == parse_qs(http.r.query)
           added == /\ Len(write_queue) = Len(http.before) + 1
                    /\ SubSeq(write_queue, 1, Len(http.before)) = http.before
       IN  IF Has(qs, "key") /\ Has(qs, "value")
           THEN /\ (Codes(http.res) = <<200>>) <=> added
                /\ ~added => /\ Codes(http.res) = <<400>>
                             /\ write_queue = http.before
           ELSE /\ Codes(http.res) = <<400>>
                /\ write_queue = http.before

\* C20: no exception leaves the handler of an authenticated request; one
\* that is not a mapped error (a register word outside its enumeration
\* during GET /status or GET /config) is answered 500 with the JSON envelope.
C20_ExceptionsTranslated ==
    (http.served /\ Authenticated(http.r))
    => /\ http.res.exc = ""
       /\ (/\ http.r.command = "GET" /\ http.r.path \in {"/status", "/config"}
           /\ ~Has(parse_qs(http.r.query), "_method")
           /\ (IF http.r.path = "/status" THEN read_status(http.dev)
                                          ELSE read_config(http.dev)).exc # "")
          => /\ Codes(http.res) = <<500>>
             /\ http.res.sent[1].body.kind = "envelope"

\* C21: every response with a 4xx or 5xx status (401, 400, 404, 500 and
\* 501 alike) carries the JSON envelope {code, message, explain} as
\* application/json.
C21_ErrorEnvelope ==
    http.served =>
        \A i \in DOMAIN http.res.sent :
            http.res.sent[i].code >= 400
            => /\ http.res.sent[i].body.kind = "envelope"
               /\ http.res.sent[i].ctype = CONTENT_TYPE_JSON

\* The request is an authenticated GET of /status or /config without a
\* _method override.
IsRead(r) ==
    /\ r.command = "GET" /\ r.path \in {"/status", "/config"}
    /\ Authenticated(r) /\ ~Has(parse_qs(r.query), "_method")

\* C22: an authenticated GET /status or GET /config is answered 200 with
\* the complete mapping (every key of the catalog) when all its read
\* transactions succeed, and 500 with the JSON envelope when a read
\* transaction fails; no mapping with keys missing is sent.
C22_ReadAllOrNothing ==
    (http.served /\ IsRead(http.r))
    => LET status == http.r.path = "/status"
           failed == IF status THEN http.dev.fail = 1 ELSE http.dev.fail # 0
           info == IF status THEN read_status_info(http.dev)
                             ELSE read_config_info(http.dev)
           C == IF status THEN InputRegisters ELSE HoldingAndWriteRegisters
       IN  IF failed
           THEN /\ Codes(http.res) = <<500>>
                /\ http.res.sent[1].body.kind = "envelope"
           ELSE /\ Codes(http.res) = <<200>>
                /\ http.res.sent[1].body.kind = "json"
                /\ info.returned /\ info.keys = DOMAIN C

\* The values that the read post-process of a numeric entry can produce:
\* the ints of one register word, and for x / 10 the tenths of one.
ReadDomain(entry, v) ==
    /\ entry.type # "CHAR"
    /\ CASE entry.read = "int" ->
                v.t = "int" /\ v.n \in 0..(Pow(65536, entry.length) - 1)
         [] entry.read = "div10" ->
                /\ v.t \in {"int", "float"}
                /\ PyTenths(v) \in 0..(Pow(65536, entry.length) - 1)
         [] OTHER -> FALSE

\* C23: for every numeric writeable key and every value that its read
\* post-process can produce, write_config queues words that decode to the
\* same value again.
C23_NumericRoundTrip ==
    \A h \in Handlers :
        (/\ req[h] # NoReq /\ WriteableKey(req[h].key)
         /\ ReadDomain(HoldingAndWriteRegisters[req[h].key], req[h].value))
        => /\ req[h].out.exc = ""
           /\ LET d == read_entry(HoldingAndWriteRegisters[req[h].key],
                                  req[h].out.values)
              IN  d.exc = "" /\ PyEq(d.v, req[h].value)

\* The value is a label of the enumeration that entry reads with (a key of
\* its write table, by Python's equality of dict keys).
IsLabel(entry, v) ==
    \E k \in DOMAIN EnumR(entry.rtab) : PyEq(EnumR(entry.rtab)[k], v)

\* C24: on a writeable enumerated key, write_config refuses every value
\* that is not a label of the enumeration with ValueError "Invalid value",
\* and queues for a label the word that reads back as that label.
C24_EnumFidelity ==
    \A h \in Handlers :
        (/\ req[h] # NoReq /\ WriteableKey(req[h].key)
         /\ HoldingAndWriteRegisters[req[h].key].read = "enum")
        => IF IsLabel(HoldingAndWriteRegisters[req[h].key], req[h].value)
           THEN /\ req[h].out.exc = ""
                /\ LET d == read_entry(HoldingAndWriteRegisters[req[h].key],
                                       req[h].out.values)
                   IN  d.exc = "" /\ PyEq(d.v, req[h].value)
           ELSE /\ req[h].out.exc = "ValueError"
                /\ req[h].out.msg = "Invalid value"

\* The words the text bytes pack into as the claim has it: two bytes per
\* word, the earlier byte in the high half, zero where the text has ended.
PackedWords(bytes, length) ==
    [j \in 1..length |->
        (IF 2 * j - 1 <= Len(bytes) THEN bytes[2 * j - 1] ELSE 0) * 256
        + (IF 2 * j <= Len(bytes) THEN bytes[2 * j] ELSE 0)]

\* C25: on a writeable CHAR key, write_config of a text that fits into the
\* key's words queues the text's bytes two per word, high half first,
\* padded with zero words to the key's length, and these words read back as
\* the text; a text that needs more words is refused with ValueError.
C25_AsciiCodec ==
    \A h \in Handlers :
        (/\ req[h] # NoReq /\ WriteableKey(req[h].key)
         /\ HoldingAndWriteRegisters[req[h].key].type = "CHAR"
         /\ req[h].value.t = "str")
        => LET entry == HoldingAndWriteRegisters[req[h].key]
               bytes == req[h].value.b
           IN  IF Len(bytes) <= 2 * entry.length
               THEN /\ req[h].out.exc = ""
                    /\ req[h].out.values = PackedWords(bytes, entry.length)
                    /\ read_entry(entry, req[h].out.values) = Ret(req[h].value)
               ELSE req[h].out.exc = "ValueError"

\* The offsets a read covers.
ReadRange(call) == call.address..(call.address + call.count - 1)

\* C26: a read_config that returns has made exactly two read transactions,
\* of offsets 0..100 and 101..162 (disjoint, the second beginning where the
\* first ends); in their concatenation index i is the holding register at
\* offset i, and every entry of the holding catalog, writeable or not, is
\* decoded from the device's words at the entry's own offsets.
C26_TwoReadsConcatenated ==
    (/\ http.served /\ IsRead(http.r) /\ http.r.path = "/config"
     /\ http.dev.fail = 0)
    => LET reg == HoldingWords(http.dev)
           C == HoldingAndWriteRegisters
       IN  /\ http.res.calls
                = [i \in DOMAIN ReadConfigCalls |-> "read_holding_registers"]
           /\ Len(ReadConfigCalls) = 2
           /\ ReadRange(ReadConfigCalls[1]) = 0..100
           /\ ReadRange(ReadConfigCalls[2]) = 101..162
           /\ Len(reg) = 163
           /\ \A o \in 0..162 : reg[o + 1] = DeviceHolding(http.dev)[o]
           /\ \A k \in DOMAIN C :
                 generic_read_postprocess(reg, C[k].start, C[k].length,
                                          C[k].type)
                 = generic_read_postprocess(
                       [i \in 1..C[k].length |->
                           DeviceHolding(http.dev)[C[k].start + i - 1]],
                       0, C[k].length, C[k].type)

\* A GET /config whose two reads succeeded has been answered 200.
C26_Witness ==
    /\ http.served /\ IsRead(http.r) /\ http.r.path = "/config"
    /\ http.dev.fail = 0 /\ http.dev.holding0 = 0
    /\ Codes(http.res) = <<200>>
    /\ Len(http.res.calls) = 2

\* The offsets of an entry: [start, start + length).
EntryRange(entry) == entry.start..(entry.start + entry.length - 1)

\* No two entries of catalog C share an offset and every entry lies within
\* the registers reg that were read from offset 0 on.
LaidOut(C, reg) ==
    /\ \A k \in DOMAIN C :
          /\ C[k].length >= 1
          /\ EntryRange(C[k]) \subseteq 0..(Len(reg) - 1)
    /\ \A j, k \in DOMAIN C :
          j # k => EntryRange(C[j]) \cap EntryRange(C[k]) = {}

\* C27: when the reads of GET /status (offsets 0..90) or GET /config
\* (offsets 0..162) have returned their registers, no two entries of the
\* catalog overlap and every entry lies inside the registers read, so the
\* decoding indexes no register outside them.
C27_LayoutInvariant ==
    (/\ http.served /\ IsRead(http.r)
     /\ Len(http.res.calls) = IF http.r.path = "/status" THEN 1 ELSE 2
     /\ http.dev.fail = 0)
    => IF http.r.path = "/status"
       THEN /\ Len(InputWords(http.dev)) = 91
            /\ LaidOut(InputRegisters, InputWords(http.dev))
       ELSE /\ Len(HoldingWords(http.dev)) = 163
            /\ LaidOut(HoldingAndWriteRegisters, HoldingWords(http.dev))

\* A GET /status whose read succeeded has been answered 200.
C27_Witness ==
    /\ http.served /\ IsRead(http.r) /\ http.r.path = "/status"
    /\ http.dev.fail = 0 /\ http.dev.input0 = 0
    /\ http.res.calls = <<"read_input_registers">>
    /\ Codes(http.res) = <<200>>

\* C28: every authenticated request, whatever its method, path and query
\* string (every value of _method included), is answered with exactly one
\* response, and that response has a Content-Length header.
C28_ExactlyOneResponse ==
    (http.served /\ Authenticated(http.r))
    => /\ Len(http.res.sent) = 1
       /\ "Content-Length" \in http.res.sent[1].headers

\* C29: handling a HEAD request, whatever its path and query string
\* (_method=PUT with key and value included), calls no write_config and
\* leaves the write queue as it was.
C29_HeadChangesNothing ==
    (http.served /\ http.r.command = "HEAD")
    => /\ ~http.res.put.called
       /\ write_queue = http.before

\* C30: between the two read transactions of one read_config call no write
\* transaction is on the channel: while a handler has made its first read
\* and not yet begun its second, neither the drain loop nor the sync loop
\* has a write in flight.
C30_SnapshotReads ==
    \A h \in Handlers :
        pc[h] = "rc2_acq" => inflight \cap {Sync, Drain} = {}

\* The places of thread t between its acquisition of the lock and the
\* release that it has to make: the wrapper's call and finally, the sync
\* loop's try and finally, and the sleep of the releasing thread.
Holding(t) ==
    CASE t = Main -> {"connect_call", "connect_fin", "close_call", "close_fin"}
      [] t = Sync -> {"align", "write", "quiet"}
      [] t = Drain -> {"write_call", "write_fin", "write_inline"}
      [] t = Defer -> {"sleep"}
      [] OTHER -> {"rs_call", "rs_fin", "rc1_call", "rc1_fin",
                   "rc2_call", "rc2_fin"}

\* C31: every acquisition of the lock is matched by exactly one release on
\* every path.  The lock is held exactly while one thread is between an
\* acquisition and the release it owes (so no release finds the lock free
\* and none is made twice); the lock changes hands only by an acquisition
\* of the free lock, by a release, or by the wrapper handing the release
\* of a write to the releasing thread; and the thread that leaves such a
\* place has released the lock or handed the release over.
C31_LockBalance ==
    /\ [](\A t \in Threads : lock = t <=> pc[t] \in Holding(t))
    /\ [](lock = Free \/ lock \in Threads)
    /\ [][lock' # lock =>
            \/ lock = Free /\ pc'[lock'] \in Holding(lock')
                           /\ pc[lock'] \notin Holding(lock')
            \/ lock' = Free /\ pc'[lock] \notin Holding(lock)
            \/ lock = Drain /\ lock' = Defer /\ pc[Drain] = "write_fin"]_vars
    /\ [][\A t \in Threads :
            (pc[t] \in Holding(t) /\ pc'[t] \notin Holding(t))
            => lock = t /\ lock' \in {Free, Defer} \ {t}]_vars

\* The sync loop's write has failed and the loop sleeps the quiet time in
\* its finally, holding the lock, while the drain loop waits for the lock.
C31_Witness ==
    /\ pc[Sync] = "quiet" /\ exc[Sync] /\ lock = Sync
    /\ pc[Drain] = "write_acq"

\* The drain loop is done with item ri of its round: the wrapper's finally
\* is over and the for loop moves on.
ItemDone ==
    /\ pc[Drain] \in {"write_fin", "write_inline"}
    /\ pc'[Drain] \notin {"write_fin", "write_inline"}

\* C32 as claimed: when the drain loop's transaction fails, the PUT that
\* queued the word has already been answered 200.
C32_AnsweredBeforeFailure ==
    (/\ traced /\ pc[Drain] = "write_fin" /\ exc[Drain]
     /\ requested[ri][1] = BuzzerStart)
    => ack # -1

\* C32, amended: a drained write that fails is dropped.  The step that ends
\* a failed item leaves the queue as it is and leaves no word for that
\* offset to be written in the round; nothing is carried from one round to
\* the next; every transaction of a round is for an entry the round took
\* from the queue; and the queue grows only by a call of write_config.  The
\* PUT whose write was accepted is answered 200 whenever its handler gets
\* to reply, before or after the drain loop's transaction.
C32_FailedWriteDiscarded ==
    /\ [][(ItemDone /\ exc[Drain])
            => /\ write_queue' = write_queue
               /\ \A i \in DOMAIN requested' :
                     i >= ri' => requested'[i][1] # requested[ri][1]]_vars
    /\ [](pc[Drain] \in {"unstarted", "wait", "done"}
            => requested = <<>> /\ batch = <<>> /\ issued = <<>>)
    /\ [](\A i \in DOMAIN issued :
            \E j \in DOMAIN batch : Covers(batch[j], issued[i][1]))
    /\ [][Len(write_queue') > Len(write_queue)
            => \E h \in Handlers :
                  /\ PutStep(h) /\ req'[h].out.exc = ""
                  /\ write_queue' = Append(write_queue,
                         <<req'[h].out.start, req'[h].out.values>>)]_vars
    /\ [](\A h \in Handlers :
            (pc[h] = "reply" /\ req[h] # NoReq /\ req[h].out.exc = "")
            => ~exc[h])

\* The PUT of value=true has been answered 200, its write has failed and
\* was dropped: the device still has the old word, nothing is queued or
\* waiting for the register, and the drain loop is back in its wait.
C32_Witness ==
    /\ traced /\ faulty
    /\ lastPut = 1 /\ ack = 1 /\ holding = 0
    /\ ~Pending(BuzzerStart)
    /\ pc[Drain] = "wait" /\ write_queue = <<>>
    /\ \A h \in Handlers : pc[h] = "idle"

=========================================================================
